---------------------------- MODULE Spec2Model ----------------------------
(* rlox: the bytecode virtual machine (src/src/main.rs), the values and    *)
(* chunks it works on (src/src/chunk.rs) and the single-pass compiler      *)
(* (src/src/compiler.rs), as state machines.                               *)
(*                                                                         *)
(* Spec         the VM running an assembled program (function table)       *)
(* SpecCall     the VM running the programs of closures and calls          *)
(* SpecCompile  run_file: compile a token stream, then run the chunk       *)
(* SpecParse    Parser::compile, one call or return of the parser at a step *)
(* SpecInterp   the tree-walking Interpreter (src/src/interpreter.rs) on a *)
(*              statement, one step of the evaluation at a time            *)
EXTENDS Integers, Sequences, FiniteSets, TLC

VARIABLES
    program,    \* the script: the Function run_file wraps in the first frame
    frames,     \* VM.frames: Seq of CallStack {closure, ip, offset}
    stack,      \* VM.stack: Seq of Value
    cells,      \* the heap of Rc<RefCell<Value>> cells, by allocation order
    status,     \* "compiling" | "running" | "ok" | "runtime_error" | "panic" | "compile_error"
    output,     \* stdout: the values printed by Print, in order
    errlog,     \* stderr: the runtime error messages and the frame trace
    captured,   \* history: the (slot, cell) pairs capture_upvalue returned for live slots
    callerLen,  \* history: per pushed frame, stack.len() before callee and arguments
    parser,     \* the Parser of run_file, with its Scanner, Compiler and Chunk
    interp      \* the Interpreter of the tree-walking iteration, with its environments

vmvars == <<program, frames, stack, cells, status, output, errlog, captured, callerLen>>
cvars == <<parser, interp>>
vars == <<program, frames, stack, cells, status, output, errlog, captured, callerLen,
          parser, interp>>

-----------------------------------------------------------------------------
(* Bounds of the model *)

MaxInstr == 3
MaxStack == 6
MaxCells == 3
MaxOutput == 4
MaxNumber == 4
MaxString == 3

-----------------------------------------------------------------------------
(* chunk.rs: Value.  Every value is a record of the same shape; tag says   *)
(* which variant it is.  A Number is the exact quotient n/d (d = 0 for the *)
(* IEEE infinities, n = 0 and d = 0 for NaN); an Obj(Closure) holds its    *)
(* function by index in program and its upvalues by cell index.            *)

ValueBase ==
    [tag |-> "nil", b |-> FALSE, n |-> 0, d |-> 1, s |-> <<>>, fn |-> 0, up |-> <<>>, cell |-> 0]

Value_nil == ValueBase

from_bool(b) == [ValueBase EXCEPT !.tag = "bool", !.b = b]

Abs(x) == IF x < 0 THEN -x ELSE x

Sign(x) == IF x < 0 THEN -1 ELSE IF x > 0 THEN 1 ELSE 0

RECURSIVE Gcd(_, _)
Gcd(a, b) == IF b = 0 THEN a ELSE Gcd(b, a % b)

(* The f64 with the value n/d, in lowest terms with d >= 0. *)
Ratio(n, d) ==
    IF d = 0 THEN [ValueBase EXCEPT !.tag = "num", !.n = Sign(n), !.d = 0]
    ELSE LET g == Gcd(Abs(n), Abs(d))
             sg == Sign(d)
         IN [ValueBase EXCEPT !.tag = "num", !.n = (sg * n) \div g, !.d = Abs(d) \div g]

from_number(n) == Ratio(n, 1)

Value_string(s) == [ValueBase EXCEPT !.tag = "str", !.s = s]

(* Value::closure(function): a closure record with no upvalues yet. *)
Value_closure(f) == [ValueBase EXCEPT !.tag = "closure", !.fn = f]

(* Value::Lifted(cell) *)
Lifted(c) == [ValueBase EXCEPT !.tag = "lifted", !.cell = c]

is_string(v) == v.tag = "str"

is_closure(v) == v.tag = "closure"

is_bool(v) == v.tag = "bool"

is_number(v) == v.tag = "num"

(* as_bool panics ("not a bool") on every value that is not a Bool. *)
as_bool_panics(v) == v.tag # "bool"

as_bool(v) == v.b

(* as_number panics ("not a number") on every value that is not a Number. *)
as_number_panics(v) == v.tag # "num"

(* f64 arithmetic on exact quotients (signed zero is not distinguished). *)
IsNaN(v) == v.d = 0 /\ v.n = 0

NumAdd(a, b) ==
    IF IsNaN(a) \/ IsNaN(b) THEN Ratio(0, 0)
    ELSE IF a.d = 0 /\ b.d = 0 THEN (IF a.n = b.n THEN a ELSE Ratio(0, 0))
    ELSE IF a.d = 0 THEN a
    ELSE IF b.d = 0 THEN b
    ELSE Ratio(a.n * b.d + b.n * a.d, a.d * b.d)

NumNeg(a) == [a EXCEPT !.n = -a.n]

NumSub(a, b) == NumAdd(a, NumNeg(b))

NumMul(a, b) == Ratio(a.n * b.n, a.d * b.d)

NumDiv(a, b) == Ratio(a.n * b.d * (IF b.n < 0 THEN -1 ELSE 1), a.d * Abs(b.n))

NumLess(a, b) ==
    IF IsNaN(a) \/ IsNaN(b) THEN FALSE
    ELSE IF a.d = 0 /\ b.d = 0 THEN a.n < b.n
    ELSE IF a.d = 0 THEN a.n < 0
    ELSE IF b.d = 0 THEN b.n > 0
    ELSE a.n * b.d < b.n * a.d

NumEq(a, b) == ~IsNaN(a) /\ ~IsNaN(b) /\ a.n = b.n /\ a.d = b.d

-----------------------------------------------------------------------------
(* chunk.rs: OpCode <-> u8 *)

OP_RETURN == 0
OP_CONSTANT == 1
OP_DIVIDE == 2
OP_ADD == 3
OP_NEGATE == 4
OP_MULTIPLY == 5
OP_SUBSTRACT == 6
OP_NOT == 7
OP_EQUAL == 8
OP_GREATER == 9
OP_LESS == 10
OP_PRINT == 11
OP_NIL == 12
OP_POP == 13
OP_JUMP_IF_FALSE == 14
OP_GET_LOCAL == 15
OP_SET_LOCAL == 16
OP_JUMP == 17
OP_LOOP == 18
OP_CALL == 19
OP_CLOSURE == 20
OP_GET_UPVALUE == 21
OP_SET_UPVALUE == 22
OP_DEBUG == 255

KnownOpcodes == (0 .. 22) \cup {255}

(* u32::to_be_bytes, for x below 2^31 *)
to_be_bytes(x) ==
    << (x \div 16777216) % 256, (x \div 65536) % 256, (x \div 256) % 256, x % 256 >>

(* u32::from_be_bytes *)
from_be_bytes(bs) == bs[1] * 16777216 + bs[2] * 65536 + bs[3] * 256 + bs[4]

-----------------------------------------------------------------------------
(* Assembled programs: the inputs of the VM *)

Ins(op) == <<op>>

InsU32(op, x) == <<op>> \o to_be_bytes(x)

(* one upvalue descriptor of a Closure instruction: (is_local: u8, index: u32) *)
Descriptor(is_local, index) == <<IF is_local THEN 1 ELSE 0>> \o to_be_bytes(index)

RECURSIVE Concat(_)
Concat(ss) == IF ss = <<>> THEN <<>> ELSE Head(ss) \o Concat(Tail(ss))

(* chunk.rs: Function, with the upvalue_count main.rs reads; every byte of *)
(* an assembled chunk is on line 1                                         *)
Function(arity, upvalue_count, name, code, constants) ==
    [arity |-> arity, upvalue_count |-> upvalue_count, name |-> name,
     code |-> code, lines |-> [i \in 1 .. Len(code) |-> 1], constants |-> constants]

(* indices of the functions: the script is 1, the others are the functions *)
(* the constant pools hold                                                 *)
FN == [SCRIPT |-> 1, F0 |-> 2, F1 |-> 3, GET |-> 4, SET |-> 5, MK |-> 6, INC |-> 7]

(* the constant pool of an assembled script *)
K == [ONE |-> 0, ZERO |-> 1, STR |-> 2, TRUE_ |-> 3, FALSE_ |-> 4, NIL |-> 5,
      F0 |-> 6, F1 |-> 7, GET |-> 8, SET |-> 9, MK |-> 10]

ScriptConstants ==
    << from_number(1), from_number(0), Value_string(<<"a">>), from_bool(TRUE), from_bool(FALSE),
       Value_nil, Value_closure(FN.F0), Value_closure(FN.F1), Value_closure(FN.GET),
       Value_closure(FN.SET), Value_closure(FN.MK) >>

(* fun f0() {}   fun f1(a) { return a; }                                   *)
(* fun get() { return x; }   fun set(v) { x = v; }     (x: upvalue 0)       *)
(* fun mk() { var n = 0; fun inc() { n = n + 1; return n; } return inc; }   *)
(* A frame's slot 0 is stack[frame.offset], the first argument (line 263).  *)
Library ==
    [i \in {FN.F0, FN.F1, FN.GET, FN.SET, FN.MK, FN.INC} |->
        CASE i = FN.F0 -> Function(0, 0, "f0", Concat(<<Ins(OP_NIL), Ins(OP_RETURN)>>), <<>>)
          [] i = FN.F1 -> Function(1, 0, "f1",
                 Concat(<<InsU32(OP_GET_LOCAL, 0), Ins(OP_RETURN)>>), <<>>)
          [] i = FN.GET -> Function(0, 1, "get",
                 Concat(<<InsU32(OP_GET_UPVALUE, 0), Ins(OP_RETURN)>>), <<>>)
          [] i = FN.SET -> Function(1, 1, "set",
                 Concat(<<InsU32(OP_GET_LOCAL, 0), InsU32(OP_SET_UPVALUE, 0), Ins(OP_POP),
                          Ins(OP_NIL), Ins(OP_RETURN)>>), <<>>)
          [] i = FN.MK -> Function(0, 0, "mk",
                 Concat(<<InsU32(OP_CONSTANT, 0),
                          InsU32(OP_CLOSURE, 1), Descriptor(TRUE, 0),
                          InsU32(OP_GET_LOCAL, 1), Ins(OP_RETURN),
                          Ins(OP_NIL), Ins(OP_RETURN)>>),
                 <<from_number(0), Value_closure(FN.INC)>>)
          [] i = FN.INC -> Function(0, 1, "inc",
                 Concat(<<InsU32(OP_GET_UPVALUE, 0), InsU32(OP_CONSTANT, 0), Ins(OP_ADD),
                          InsU32(OP_SET_UPVALUE, 0), Ins(OP_POP),
                          InsU32(OP_GET_UPVALUE, 0), Ins(OP_RETURN),
                          Ins(OP_NIL), Ins(OP_RETURN)>>),
                 <<from_number(1)>>)]

(* the Function an Rc<Function> points to *)
FunctionAt(i) == IF i = FN.SCRIPT THEN program ELSE Library[i]

Script(code) == Function(0, 0, "<script>", code, ScriptConstants)

(* var c = mk(); print c(); print c(); print c();                          *)
(* The slots are those this VM gives: a callee stays on the stack below    *)
(* the value its call returns (lines 57 and 263), so c is slot 2.          *)
CounterScript ==
    Script(Concat(<<InsU32(OP_CLOSURE, K.MK),
                    InsU32(OP_GET_LOCAL, 0), InsU32(OP_CALL, 0),
                    InsU32(OP_GET_LOCAL, 2), InsU32(OP_CALL, 0), Ins(OP_PRINT), Ins(OP_POP),
                    InsU32(OP_GET_LOCAL, 2), InsU32(OP_CALL, 0), Ins(OP_PRINT), Ins(OP_POP),
                    InsU32(OP_GET_LOCAL, 2), InsU32(OP_CALL, 0), Ins(OP_PRINT), Ins(OP_POP),
                    Ins(OP_NIL), Ins(OP_RETURN)>>))

(* var x = 1; fun get() { return x; } x = 0; print get(); *)
AssignAfterCaptureScript ==
    Script(Concat(<<InsU32(OP_CONSTANT, K.ONE),
                    InsU32(OP_CLOSURE, K.GET), Descriptor(TRUE, 0),
                    InsU32(OP_CONSTANT, K.ZERO), InsU32(OP_SET_LOCAL, 0), Ins(OP_POP),
                    InsU32(OP_GET_LOCAL, 1), InsU32(OP_CALL, 0), Ins(OP_PRINT), Ins(OP_POP),
                    Ins(OP_NIL), Ins(OP_RETURN)>>))

(* var x = 1; fun get() { return x; } x = 0; fun set(v) { x = v; } *)
CaptureTwiceScript ==
    Script(Concat(<<InsU32(OP_CONSTANT, K.ONE),
                    InsU32(OP_CLOSURE, K.GET), Descriptor(TRUE, 0),
                    InsU32(OP_CONSTANT, K.ZERO), InsU32(OP_SET_LOCAL, 0), Ins(OP_POP),
                    InsU32(OP_CLOSURE, K.SET), Descriptor(TRUE, 0),
                    Ins(OP_NIL), Ins(OP_RETURN)>>))

(* var x = 1; fun get() { return x; } fun set(v) { x = v; } *)
CaptureSharedScript ==
    Script(Concat(<<InsU32(OP_CONSTANT, K.ONE),
                    InsU32(OP_CLOSURE, K.GET), Descriptor(TRUE, 0),
                    InsU32(OP_CLOSURE, K.SET), Descriptor(TRUE, 0),
                    Ins(OP_NIL), Ins(OP_RETURN)>>))

(* print f1("a"); *)
CallScript ==
    Script(Concat(<<InsU32(OP_CLOSURE, K.F1), InsU32(OP_CONSTANT, K.STR), InsU32(OP_CALL, 1),
                    Ins(OP_PRINT), Ins(OP_POP), Ins(OP_NIL), Ins(OP_RETURN)>>))

(* while (true) print nil;  with a dump of the stack at the end *)
LoopScript ==
    Script(Concat(<<InsU32(OP_CONSTANT, K.TRUE_), InsU32(OP_JUMP_IF_FALSE, 8), Ins(OP_POP),
                    Ins(OP_NIL), Ins(OP_PRINT), InsU32(OP_LOOP, 18),
                    Ins(OP_POP), Ins(OP_DEBUG), Ins(OP_NIL), Ins(OP_RETURN)>>))

ScenarioScripts ==
    {CounterScript, AssignAfterCaptureScript, CaptureTwiceScript, CaptureSharedScript,
     CallScript, LoopScript}

(* the instructions of the short scripts; 99 is a byte that is no OpCode *)
Alphabet ==
    {InsU32(OP_CONSTANT, k) : k \in {K.ONE, K.ZERO, K.STR, K.TRUE_, K.FALSE_, K.NIL, K.F0}}
    \cup {Ins(op) : op \in {OP_NIL, OP_POP, OP_PRINT, OP_RETURN, OP_ADD, OP_SUBSTRACT,
                            OP_MULTIPLY, OP_DIVIDE, OP_NEGATE, OP_NOT, OP_EQUAL, OP_LESS,
                            OP_GREATER, OP_DEBUG, 99}}
    \cup {InsU32(op, i) : op \in {OP_GET_LOCAL, OP_SET_LOCAL}, i \in {0, 1}}
    \cup {InsU32(op, 0) : op \in {OP_GET_UPVALUE, OP_SET_UPVALUE}}
    \cup {InsU32(OP_CLOSURE, k) : k \in {K.F0, K.F1}}
    \cup {InsU32(OP_CLOSURE, K.GET) \o Descriptor(l, 0) : l \in BOOLEAN}
    \cup {InsU32(OP_CALL, a) : a \in {0, 1}}
    \cup {InsU32(op, 1) : op \in {OP_JUMP_IF_FALSE, OP_JUMP}}
    \cup {InsU32(OP_LOOP, 5)}

(* every script of at most MaxInstr instructions, ended by the Return that *)
(* end_compiler emits                                                       *)
ShortScripts ==
    {Script(Concat(is) \o Ins(OP_RETURN)) :
        is \in UNION {[1 .. n -> Alphabet] : n \in 0 .. MaxInstr}}

Scripts == ScenarioScripts \cup ShortScripts

-----------------------------------------------------------------------------
(* main.rs: VM.  ip, offset and stack indices are 0-based as in the code;  *)
(* the sequences are 1-based.                                              *)

Running == status = "running"

(* VM::frame *)
frame == frames[Len(frames)]

CurFn == FunctionAt(frame.closure.fn)

Code == CurFn.code

(* run, lines 50-52: the byte at ip is fetched and decoded *)
Fetches(op) == Running /\ frame.ip < Len(Code) /\ Code[frame.ip + 1] = op

(* the frames with frame_mut().ip set *)
SetIp(ip) == [frames EXCEPT ![Len(frames)].ip = ip]

(* VM::read_u32 at ip = p: the slice code[p..p+4] must exist *)
CanReadU32(p) == p + 4 <= Len(Code)

read_u32(p) == from_be_bytes(SubSeq(Code, p + 1, p + 4))

(* VM::read_bool at ip = p *)
CanReadBool(p) == p < Len(Code)

read_bool(p) == Code[p + 1] # 0

(* VM::peek: stack[stack.len() - 1 - depth], which must exist *)
CanPeek(depth) == depth < Len(stack)

peek(depth) == stack[Len(stack) - depth]

(* the stack after n calls of VM::pop *)
Popped(n) == SubSeq(stack, 1, Len(stack) - n)

(* the history of captures, for the slots that are still on a stack of n values *)
Keep(n) == SelectSeq(captured, LAMBDA e : e.slot < n)

(* a panic of the Rust runtime (unwrap on None, index out of bounds,       *)
(* panic!): the process aborts                                             *)
Panic ==
    /\ status' = "panic"
    /\ UNCHANGED <<program, frames, stack, cells, output, errlog, captured, callerLen>>

(* VM::runtime_error: the message, then one line per frame, innermost first *)
TraceOk(fs) ==
    \A i \in 1 .. Len(fs) : fs[i].ip >= 1 /\ fs[i].ip - 1 < Len(FunctionAt(fs[i].closure.fn).lines)

runtime_error(msg, fs) ==
    errlog \o <<[msg |-> msg, line |-> 0, name |-> ""]>>
           \o [i \in 1 .. Len(fs) |->
                  LET f == fs[Len(fs) + 1 - i]
                  IN [msg |-> "", line |-> FunctionAt(f.closure.fn).lines[f.ip],
                      name |-> FunctionAt(f.closure.fn).name]]

(* a runtime_error whose reset_stack empties the value stack *)
RuntimeError_resetting_stack(msg, ip) ==
    /\ status' = "runtime_error"
    /\ frames' = SetIp(ip)
    /\ errlog' = runtime_error(msg, SetIp(ip))
    /\ stack' = <<>>
    /\ UNCHANGED <<program, cells, output, captured, callerLen>>

(* run returns InterpretResult::RuntimeError after runtime_error(msg) *)
RuntimeError(msg, ip) ==
    IF ~TraceOk(SetIp(ip)) THEN Panic
    ELSE /\ status' = "runtime_error"
         /\ frames' = SetIp(ip)
         /\ errlog' = runtime_error(msg, SetIp(ip))
         /\ UNCHANGED <<program, stack, cells, output, captured, callerLen>>

(* the values the model follows: numbers n/d and strings up to the bounds *)
Fits(v) ==
    /\ v.tag = "num" => (Abs(v.n) <= MaxNumber /\ v.d <= MaxNumber)
    /\ v.tag = "str" => Len(v.s) <= MaxString

(* the instruction ends with the stack st and the ip set *)
Continue(st, ip, kept) ==
    /\ st # <<>> => Fits(st[Len(st)])
    /\ stack' = st
    /\ frames' = SetIp(ip)
    /\ captured' = Keep(kept)
    /\ UNCHANGED <<program, cells, status, output, errlog, callerLen>>

(* run, lines 50-52: no byte at ip, or a byte that is no OpCode *)
OpFetchPanic ==
    /\ Running
    /\ IF frame.ip >= Len(Code) THEN TRUE ELSE Code[frame.ip + 1] \notin KnownOpcodes
    /\ Panic
    /\ UNCHANGED cvars

OpReturn ==
    /\ Fetches(OP_RETURN)
    /\ IF ~CanPeek(0) THEN Panic
       ELSE LET v == peek(0)
                s1 == Popped(1)
                s2 == IF frame.offset < Len(s1) THEN SubSeq(s1, 1, frame.offset) ELSE s1
                fs == SubSeq(frames, 1, Len(frames) - 1)
            IN /\ frames' = fs
               /\ callerLen' = SubSeq(callerLen, 1, Len(fs) - 1)
               /\ captured' = Keep(Len(s2))
               /\ IF fs = <<>>
                  THEN stack' = s2 /\ status' = "ok"
                  ELSE stack' = Append(s2, v) /\ status' = status
               /\ UNCHANGED <<program, cells, output, errlog>>
    /\ UNCHANGED cvars

OpConstant ==
    /\ Fetches(OP_CONSTANT)
    /\ Len(stack) < MaxStack
    /\ LET p == frame.ip + 1
       IN IF ~CanReadU32(p) THEN Panic
          ELSE IF read_u32(p) >= Len(CurFn.constants) THEN Panic
          ELSE Continue(Append(stack, CurFn.constants[read_u32(p) + 1]), p + 4, Len(stack))
    /\ UNCHANGED cvars

(* VM::capture_upvalue(i) on the stack st and the cells cl *)
capture_upvalue(st, cl, i) ==
    IF st[i + 1].tag = "lifted"
    THEN [stack |-> st, cells |-> cl, location |-> st[i + 1].cell]
    ELSE [stack |-> [st EXCEPT ![i + 1] = Lifted(Len(cl) + 1)],
          cells |-> Append(cl, st[i + 1]),
          location |-> Len(cl) + 1]

(* run, lines 73-81: the loop over the upvalue descriptors, k still to read; *)
(* acc is the local variable `closure` (its upvalues), with the VM state     *)
RECURSIVE ClosureLoop(_, _)
ClosureLoop(k, acc) ==
    IF k = 0 \/ acc.panic THEN acc
    ELSE IF ~CanReadBool(acc.ip) \/ ~CanReadU32(acc.ip + 1) THEN [acc EXCEPT !.panic = TRUE]
    ELSE LET is_local == read_bool(acc.ip)
             index == read_u32(acc.ip + 1)
         IN IF is_local
            THEN IF frame.offset + index >= Len(acc.stack) THEN [acc EXCEPT !.panic = TRUE]
                 ELSE LET c == capture_upvalue(acc.stack, acc.cells, frame.offset + index)
                      IN ClosureLoop(k - 1,
                             [acc EXCEPT !.stack = c.stack, !.cells = c.cells,
                                         !.ip = acc.ip + 5,
                                         !.up = Append(acc.up, c.location),
                                         !.captured = Append(acc.captured,
                                             [slot |-> frame.offset + index, cell |-> c.location])])
            ELSE IF index >= Len(frame.closure.up) THEN [acc EXCEPT !.panic = TRUE]
                 ELSE ClosureLoop(k - 1,
                          [acc EXCEPT !.ip = acc.ip + 5,
                                      !.up = Append(acc.up, frame.closure.up[index + 1])])

(* run, line 82: the value pushed is closure_value; `closure`, the clone    *)
(* as_closure() returned and the loop filled, is dropped                    *)
ClosurePushed(closure_value, closure) == closure_value

OpClosure ==
    /\ Fetches(OP_CLOSURE)
    /\ Len(stack) < MaxStack
    /\ LET p == frame.ip + 1
       IN IF ~CanReadU32(p) THEN Panic
          ELSE IF read_u32(p) >= Len(CurFn.constants) THEN Panic
          ELSE LET function == CurFn.constants[read_u32(p) + 1]
               IN IF ~is_closure(function) THEN Panic
                  ELSE LET closure_value == Value_closure(function.fn)
                           r == ClosureLoop(FunctionAt(function.fn).upvalue_count,
                                    [stack |-> stack, cells |-> cells, ip |-> p + 4,
                                     up |-> <<>>, captured |-> captured, panic |-> FALSE])
                           closure == [closure_value EXCEPT !.up = r.up]
                       IN /\ Len(cells) + FunctionAt(function.fn).upvalue_count <= MaxCells
                          /\ IF r.panic THEN Panic
                             ELSE /\ stack' = Append(r.stack, ClosurePushed(closure_value, closure))
                                  /\ cells' = r.cells
                                  /\ frames' = SetIp(r.ip)
                                  /\ captured' = r.captured
                                  /\ UNCHANGED <<program, status, output, errlog, callerLen>>
    /\ UNCHANGED cvars

(* run, lines 85, 114, 123, 145, 154: the guard of the numeric binary operators *)
NumericGuardFails == ~is_number(peek(0)) \/ ~is_number(peek(0))

(* Divide, Multiply, Substract, Less, Greater: guard, pop b, pop a, push  *)
(* the result of the operator on a and b                                  *)
NumericBinary(op, result) ==
    /\ Fetches(op)
    /\ IF ~CanPeek(0) THEN Panic
       ELSE IF NumericGuardFails THEN RuntimeError("Operands must be numbers.", frame.ip + 1)
       ELSE IF ~CanPeek(1) THEN Panic
       ELSE IF as_number_panics(peek(1)) THEN Panic
       ELSE Continue(Append(Popped(2), result), frame.ip + 1, Len(stack) - 2)
    /\ UNCHANGED cvars

OpDivide == NumericBinary(OP_DIVIDE, NumDiv(peek(1), peek(0)))

OpMultiply == NumericBinary(OP_MULTIPLY, NumMul(peek(1), peek(0)))

OpSubstract == NumericBinary(OP_SUBSTRACT, NumSub(peek(1), peek(0)))

OpLess == NumericBinary(OP_LESS, from_bool(NumLess(peek(1), peek(0))))

OpGreater == NumericBinary(OP_GREATER, from_bool(NumLess(peek(0), peek(1))))

(* VM::concatenate *)
concatenate == Append(Popped(2), Value_string(peek(1).s \o peek(0).s))

OpAdd ==
    /\ Fetches(OP_ADD)
    /\ IF ~CanPeek(0) THEN Panic
       ELSE IF is_string(peek(0)) /\ ~CanPeek(1) THEN Panic
       ELSE IF is_string(peek(0)) /\ is_string(peek(1))
            THEN Continue(concatenate, frame.ip + 1, Len(stack) - 2)
       ELSE IF is_number(peek(0)) /\ is_number(peek(0))
            THEN IF ~CanPeek(1) THEN Panic
                 ELSE IF as_number_panics(peek(1)) THEN Panic
                 ELSE Continue(Append(Popped(2), NumAdd(peek(1), peek(0))),
                               frame.ip + 1, Len(stack) - 2)
       ELSE RuntimeError("Operands must be two numbers or two strings.", frame.ip + 1)
    /\ UNCHANGED cvars

OpNegate ==
    /\ Fetches(OP_NEGATE)
    /\ IF ~CanPeek(0) THEN Panic
       ELSE IF ~is_number(peek(0)) THEN RuntimeError("Operand must be a number.", frame.ip + 1)
       ELSE Continue(Append(Popped(1), NumNeg(peek(0))), frame.ip + 1, Len(stack) - 1)
    /\ UNCHANGED cvars

OpNot ==
    /\ Fetches(OP_NOT)
    /\ IF ~CanPeek(0) THEN Panic
       ELSE IF ~is_bool(peek(0)) THEN RuntimeError("Operand must be a bool.", frame.ip + 1)
       ELSE Continue(Append(Popped(1), from_bool(~as_bool(peek(0)))), frame.ip + 1, Len(stack) - 1)
    /\ UNCHANGED cvars

(* a == b of the derived PartialEq: variant by variant; an Rc is compared   *)
(* by the value it points to, so closures by their functions' contents      *)
ValueEq(a, b) ==
    /\ a.tag = b.tag
    /\ CASE a.tag = "nil" -> TRUE
         [] a.tag = "bool" -> a.b = b.b
         [] a.tag = "num" -> NumEq(a, b)
         [] a.tag = "str" -> a.s = b.s
         [] a.tag = "closure" ->
                /\ FunctionAt(a.fn) = FunctionAt(b.fn)
                /\ Len(a.up) = Len(b.up)
                /\ \A i \in 1 .. Len(a.up) : cells[a.up[i]] = cells[b.up[i]]
         [] a.tag = "lifted" -> cells[a.cell] = cells[b.cell]

OpEqual ==
    /\ Fetches(OP_EQUAL)
    /\ IF ~CanPeek(1) THEN Panic
       ELSE Continue(Append(Popped(2), from_bool(ValueEq(peek(1), peek(0)))),
                     frame.ip + 1, Len(stack) - 2)
    /\ UNCHANGED cvars

OpPrint ==
    /\ Fetches(OP_PRINT)
    /\ Len(output) < MaxOutput
    /\ IF ~CanPeek(0) THEN Panic
       ELSE /\ output' = Append(output, peek(0))
            /\ stack' = Popped(1)
            /\ frames' = SetIp(frame.ip + 1)
            /\ captured' = Keep(Len(stack) - 1)
            /\ UNCHANGED <<program, cells, status, errlog, callerLen>>
    /\ UNCHANGED cvars

OpNil ==
    /\ Fetches(OP_NIL)
    /\ Len(stack) < MaxStack
    /\ Continue(Append(stack, Value_nil), frame.ip + 1, Len(stack))
    /\ UNCHANGED cvars

OpPop ==
    /\ Fetches(OP_POP)
    /\ IF ~CanPeek(0) THEN Panic
       ELSE Continue(Popped(1), frame.ip + 1, Len(stack) - 1)
    /\ UNCHANGED cvars

OpJumpIfFalse ==
    /\ Fetches(OP_JUMP_IF_FALSE)
    /\ LET p == frame.ip + 1
       IN IF ~CanReadU32(p) THEN Panic
          ELSE IF ~CanPeek(0) THEN Panic
          ELSE IF as_bool_panics(peek(0)) THEN Panic
          ELSE IF ~as_bool(peek(0))
               THEN Continue(stack, p + 4 + read_u32(p), Len(stack))
               ELSE Continue(stack, p + 4, Len(stack))
    /\ UNCHANGED cvars

OpJump ==
    /\ Fetches(OP_JUMP)
    /\ LET p == frame.ip + 1
       IN IF ~CanReadU32(p) THEN Panic
          ELSE Continue(stack, p + 4 + read_u32(p), Len(stack))
    /\ UNCHANGED cvars

(* ip -= jump on a usize: below 0 it panics (debug build) or wraps to an ip *)
(* no chunk has (release build), and the next fetch panics                  *)
OpLoop ==
    /\ Fetches(OP_LOOP)
    /\ LET p == frame.ip + 1
       IN IF ~CanReadU32(p) THEN Panic
          ELSE IF read_u32(p) > p + 4 THEN Panic
          ELSE Continue(stack, p + 4 - read_u32(p), Len(stack))
    /\ UNCHANGED cvars

OpGetLocal ==
    /\ Fetches(OP_GET_LOCAL)
    /\ Len(stack) < MaxStack
    /\ LET p == frame.ip + 1
       IN IF ~CanReadU32(p) THEN Panic
          ELSE IF frame.offset + read_u32(p) >= Len(stack) THEN Panic
          ELSE Continue(Append(stack, stack[frame.offset + read_u32(p) + 1]), p + 4, Len(stack))
    /\ UNCHANGED cvars

(* run, line 193: stack[offset + index] = value *)
SetLocalStore(i, value) == [stack EXCEPT ![i + 1] = value]

OpSetLocal ==
    /\ Fetches(OP_SET_LOCAL)
    /\ LET p == frame.ip + 1
       IN IF ~CanReadU32(p) THEN Panic
          ELSE IF ~CanPeek(0) THEN Panic
          ELSE IF frame.offset + read_u32(p) >= Len(stack) THEN Panic
          ELSE Continue(SetLocalStore(frame.offset + read_u32(p), peek(0)), p + 4, Len(stack))
    /\ UNCHANGED cvars

OpGetUpvalue ==
    /\ Fetches(OP_GET_UPVALUE)
    /\ Len(stack) < MaxStack
    /\ LET p == frame.ip + 1
       IN IF ~CanReadU32(p) THEN Panic
          ELSE IF read_u32(p) >= Len(frame.closure.up) THEN Panic
          ELSE Continue(Append(stack, Lifted(frame.closure.up[read_u32(p) + 1])), p + 4, Len(stack))
    /\ UNCHANGED cvars

OpSetUpvalue ==
    /\ Fetches(OP_SET_UPVALUE)
    /\ LET p == frame.ip + 1
       IN IF ~CanReadU32(p) THEN Panic
          ELSE IF read_u32(p) >= Len(frame.closure.up) THEN Panic
          ELSE IF ~CanPeek(0) THEN Panic
          ELSE /\ cells' = [cells EXCEPT ![frame.closure.up[read_u32(p) + 1]] = peek(0)]
               /\ frames' = SetIp(p + 4)
               /\ UNCHANGED <<program, stack, status, output, errlog, captured, callerLen>>
    /\ UNCHANGED cvars

(* VM::call, line 263: the offset of the frame pushed for argc arguments *)
CallOffset(argc) == Len(stack) - argc

(* VM::call, lines 259-265: the frame pushed for the callee f *)
CallFrame(f, argc) ==
    [closure |-> [fn |-> f.fn, up |-> f.up], ip |-> 0, offset |-> CallOffset(argc)]

OpCall ==
    /\ Fetches(OP_CALL)
    /\ LET p == frame.ip + 1
       IN IF ~CanReadU32(p) THEN Panic
          ELSE LET argc == read_u32(p)
               IN IF ~CanPeek(argc) THEN Panic
                  ELSE IF ~is_closure(peek(argc))
                       THEN /\ status' = "runtime_error"
                            /\ frames' = SetIp(p + 4)
                            /\ UNCHANGED <<program, stack, cells, output, errlog, captured, callerLen>>
                  ELSE IF FunctionAt(peek(argc).fn).arity # argc
                       THEN RuntimeError("Expected " \o ToString(FunctionAt(peek(argc).fn).arity)
                                         \o " arguments but got " \o ToString(argc) \o ".", p + 4)
                  ELSE /\ frames' = Append(SetIp(p + 4), CallFrame(peek(argc), argc))
                       /\ callerLen' = Append(callerLen, Len(stack) - argc - 1)
                       /\ UNCHANGED <<program, stack, cells, status, output, errlog, captured>>
    /\ UNCHANGED cvars

(* Debug dumps the stack and the frame on stdout; output records Print only *)
OpDebug ==
    /\ Fetches(OP_DEBUG)
    /\ Continue(stack, frame.ip + 1, Len(stack))
    /\ UNCHANGED cvars

-----------------------------------------------------------------------------
(* run_file, lines 318-326: the VM is built around the script and run *)

ScriptFrame == [closure |-> [fn |-> FN.SCRIPT, up |-> <<>>], ip |-> 0, offset |-> 0]

VMInit(script) ==
    /\ program = script
    /\ frames = <<ScriptFrame>>
    /\ stack = <<>>
    /\ cells = <<>>
    /\ status = "running"
    /\ output = <<>>
    /\ errlog = <<>>
    /\ captured = <<>>
    /\ callerLen = <<>>

Init ==
    /\ \E script \in Scripts : VMInit(script)
    /\ parser = [phase |-> "none"]
    /\ interp = [phase |-> "none"]

Next ==
    \/ OpFetchPanic
    \/ OpReturn
    \/ OpConstant
    \/ OpClosure
    \/ OpDivide
    \/ OpAdd
    \/ OpNegate
    \/ OpMultiply
    \/ OpSubstract
    \/ OpNot
    \/ OpEqual
    \/ OpLess
    \/ OpGreater
    \/ OpPrint
    \/ OpNil
    \/ OpPop
    \/ OpJumpIfFalse
    \/ OpJump
    \/ OpLoop
    \/ OpGetLocal
    \/ OpSetLocal
    \/ OpGetUpvalue
    \/ OpSetUpvalue
    \/ OpCall
    \/ OpDebug

Spec == Init /\ [][Next]_vars

(* The VM on the scripts that build closures and call them: f0 takes no    *)
(* argument, f1 takes one and returns it.                                  *)
CallAlphabet ==
    {InsU32(OP_CONSTANT, K.ONE), InsU32(OP_CLOSURE, K.F0), InsU32(OP_CLOSURE, K.F1),
     InsU32(OP_CALL, 0), InsU32(OP_CALL, 1), InsU32(OP_CALL, 2), Ins(OP_NIL), Ins(OP_POP)}

CallScripts ==
    {Script(Concat(is) \o Ins(OP_RETURN)) :
        is \in UNION {[1 .. n -> CallAlphabet] : n \in 0 .. MaxInstr}}

InitCall ==
    /\ \E script \in CallScripts : VMInit(script)
    /\ parser = [phase |-> "none"]
    /\ interp = [phase |-> "none"]

NextCall ==
    \/ OpReturn
    \/ OpConstant
    \/ OpClosure
    \/ OpCall
    \/ OpNil
    \/ OpPop
    \/ OpGetLocal

SpecCall == InitCall /\ [][NextCall]_vars

-----------------------------------------------------------------------------
(* Claims about the VM, checked under Spec; C13 under SpecCall *)

(* the instruction at ip is op and this step executes it to its end *)
Executes(op) == Fetches(op) /\ status' = "running" /\ frames' # frames

(* C1: a Return that leaves a frame behind leaves the stack one value      *)
(* longer than it was before the callee and its arguments were pushed:     *)
(* callee and arguments are gone, the returned value is added.             *)
C1_ReturnRestoresCallerStack ==
    [][(Executes(OP_RETURN) /\ Len(frames) > 1 /\ Len(frames') = Len(frames) - 1)
          => Len(stack') = callerLen[Len(callerLen)] + 1]_vars

(* C2: a Call argc that pushes a frame pushes one with ip = 0 and          *)
(* offset = stack.len() - argc - 1, so that stack[offset] is the callee.   *)
C2_CallFrameStartsAtCallee ==
    [][(Fetches(OP_CALL) /\ Len(frames') = Len(frames) + 1)
          => LET argc == read_u32(frame.ip + 1)
                 new == frames'[Len(frames')]
             IN /\ new.ip = 0
                /\ new.offset = Len(stack) - argc - 1
                /\ is_closure(stack[new.offset + 1])
                /\ stack[new.offset + 1].fn = new.closure.fn]_vars

(* what a read of stack slot i yields: the cell's value once it is lifted *)
SlotView(i) == IF stack[i + 1].tag = "lifted" THEN cells[stack[i + 1].cell] ELSE stack[i + 1]

(* C3: a captured slot and its upvalue are one storage: as long as the     *)
(* slot lives, a read of the slot and a read of the upvalue's cell yield   *)
(* the same, last assigned, value.                                         *)
C3_SlotAndUpvalueAreOneStorage ==
    \A k \in 1 .. Len(captured) :
        captured[k].slot < Len(stack) => SlotView(captured[k].slot) = cells[captured[k].cell]

(* C4: every capture_upvalue of one live slot returns the same cell.       *)
C4_OneCellPerCapturedSlot ==
    \A j, k \in 1 .. Len(captured) :
        captured[j].slot = captured[k].slot => captured[j].cell = captured[k].cell

(* C5: the closure a Closure instruction pushes carries upvalue_count      *)
(* upvalues, each a live cell, and a GetUpvalue/SetUpvalue with an index    *)
(* below the running function's upvalue_count is in bounds.                 *)
C5_ClosureCarriesItsUpvalues ==
    [][/\ (Executes(OP_CLOSURE) /\ Len(stack') = Len(stack) + 1)
            => LET v == stack'[Len(stack')]
               IN /\ is_closure(v)
                  /\ Len(v.up) = FunctionAt(v.fn).upvalue_count
                  /\ \A i \in 1 .. Len(v.up) : v.up[i] \in 1 .. Len(cells')
       /\ \A op \in {OP_GET_UPVALUE, OP_SET_UPVALUE} :
            (Fetches(op) /\ CanReadU32(frame.ip + 1) /\ CanPeek(0)
                /\ read_u32(frame.ip + 1) < CurFn.upvalue_count)
            => status' = "running"]_vars

(* C6: the captured n outlives mk's activation and the calls of inc see    *)
(* each other's writes: the counter script ends well, having printed 1, 2  *)
(* and 3.                                                                  *)
C6_CounterPrints123 ==
    (program = CounterScript /\ ~Running)
        => (status = "ok" /\ output = <<from_number(1), from_number(2), from_number(3)>>)

(* Falsiness: Nil and Bool(false) *)
Falsy(v) == v.tag = "nil" \/ (v.tag = "bool" /\ ~v.b)

(* C9: JumpIfFalse on any value: never fails, leaves the stack alone, and  *)
(* adds its offset to ip exactly when the top of the stack is falsy.       *)
C9_JumpIfFalseOnAnyValue ==
    [][(Fetches(OP_JUMP_IF_FALSE) /\ CanReadU32(frame.ip + 1) /\ CanPeek(0))
          => /\ status' = "running"
             /\ stack' = stack
             /\ frames' = SetIp(frame.ip + 5
                                + IF Falsy(peek(0)) THEN read_u32(frame.ip + 1) ELSE 0)]_vars

(* C10: Substract, Multiply and Divide check both operands: with a         *)
(* non-number among the two top values the VM halts with RuntimeError,     *)
(* and only with two numbers does it pop both and push the result.         *)
C10_ArithmeticChecksBothOperands ==
    [][\A op \in {OP_SUBSTRACT, OP_MULTIPLY, OP_DIVIDE} :
          (Fetches(op) /\ CanPeek(1))
          => IF is_number(peek(0)) /\ is_number(peek(1))
             THEN /\ status' = "running"
                  /\ Len(stack') = Len(stack) - 1
                  /\ is_number(stack'[Len(stack')])
             ELSE /\ status' = "runtime_error"
                  /\ errlog' # errlog]_vars

(* C11: Add by operand kinds: two numbers are replaced by their sum, two   *)
(* strings by the left one followed by the right one, and every other      *)
(* pair of operands halts the VM with RuntimeError.                        *)
C11_AddByOperandKinds ==
    [][(Fetches(OP_ADD) /\ CanPeek(1))
          => IF is_number(peek(1)) /\ is_number(peek(0))
             THEN /\ status' = "running"
                  /\ stack' = Append(Popped(2), NumAdd(peek(1), peek(0)))
             ELSE IF is_string(peek(1)) /\ is_string(peek(0))
             THEN /\ status' = "running"
                  /\ stack' = Append(Popped(2), Value_string(peek(1).s \o peek(0).s))
             ELSE /\ status' = "runtime_error"
                  /\ errlog' # errlog]_vars

(* C12: a Call whose callee is no closure halts the VM with RuntimeError,  *)
(* pushes no frame, and reports "Can only call functions and classes."     *)
(* followed by the frame trace.                                            *)
C12_CallOfNonClosureIsReported ==
    [][(Fetches(OP_CALL) /\ CanReadU32(frame.ip + 1) /\ CanPeek(read_u32(frame.ip + 1))
            /\ ~is_closure(peek(read_u32(frame.ip + 1))))
          => /\ status' = "runtime_error"
             /\ Len(frames') = Len(frames)
             /\ Len(errlog') = Len(errlog) + 1 + Len(frames)
             /\ errlog'[Len(errlog) + 1].msg = "Can only call functions and classes."]_vars

(* the Call at ip finds a closure whose function's arity is not its argc *)
ArityMismatch ==
    /\ Fetches(OP_CALL)
    /\ CanReadU32(frame.ip + 1)
    /\ CanPeek(read_u32(frame.ip + 1))
    /\ is_closure(peek(read_u32(frame.ip + 1)))
    /\ FunctionAt(peek(read_u32(frame.ip + 1)).fn).arity # read_u32(frame.ip + 1)

(* C13: a Call argc on a closure of another arity halts the VM with        *)
(* RuntimeError, pushes no frame, leaves the value stack as it was, and    *)
(* reports "Expected N arguments but got M." with N the arity and M argc,  *)
(* followed by one trace line per frame.                                   *)
C13_ArityMismatchIsReported ==
    [][ArityMismatch
          => LET argc == read_u32(frame.ip + 1)
                 arity == FunctionAt(peek(argc).fn).arity
             IN /\ status' = "runtime_error"
                /\ Len(frames') = Len(frames)
                /\ stack' = stack
                /\ Len(errlog') = Len(errlog) + 1 + Len(frames)
                /\ errlog'[Len(errlog) + 1].msg
                      = "Expected " \o ToString(arity) \o " arguments but got "
                            \o ToString(argc) \o "."]_vars

(* f1, of one parameter, was called with no argument, with a value below   *)
(* it on the stack: the VM has halted, the message names both counts       *)
C13_Witness ==
    /\ status = "runtime_error"
    /\ Len(frames) = 1
    /\ Len(stack) = 2
    /\ is_closure(peek(0))
    /\ FunctionAt(peek(0).fn).arity = 1
    /\ errlog # <<>>
    /\ errlog[1].msg = "Expected 1 arguments but got 0."


-----------------------------------------------------------------------------
(* compiler.rs: Token and Scanner.  A source text is the sequence of its   *)
(* characters; positions are 0-based as in the code.                       *)

Alphabetic ==
    {"a", "b", "c", "d", "e", "f", "g", "h", "i", "j", "k", "l", "m",
     "n", "o", "p", "q", "r", "s", "t", "u", "v", "w", "x", "y", "z"}

Digits == <<"0", "1", "2", "3", "4", "5", "6", "7", "8", "9">>

Numeric == {Digits[i] : i \in 1 .. 10}

Whitespace == {" ", "\n"}

is_alphabetic(c) == c \in Alphabetic

is_numeric(c) == c \in Numeric

is_whitespace(c) == c \in Whitespace

Token(kind, lexeme, line) == [kind |-> kind, lexeme |-> lexeme, line |-> line]

(* Scanner::init *)
Scanner_init(source) ==
    [source |-> source, start |-> 0, current |-> 0, line |-> 1, panicked |-> FALSE]

(* a panic of the scanner: source.chars().nth(..).unwrap() on None *)
ScannerPanic(sc) == [sc EXCEPT !.panicked = TRUE]

Scanner_is_at_end(sc) == sc.current = Len(sc.source)

(* Scanner::peek unwraps source.chars().nth(current) *)
Scanner_can_peek(sc) == sc.current < Len(sc.source)

Scanner_peek(sc) == sc.source[sc.current + 1]

(* Scanner::peek_next is Some(c) when there is a character at current + 1 *)
Scanner_has_next(sc) == sc.current + 1 < Len(sc.source)

Scanner_peek_next(sc) == sc.source[sc.current + 2]

(* Scanner::advance, the cursor part; the character it returns is Scanner_peek before *)
Scanner_advance(sc) == [sc EXCEPT !.current = sc.current + 1]

(* Scanner::make_token *)
make_token(sc, kind) == Token(kind, SubSeq(sc.source, sc.start + 1, sc.current), sc.line)

(* Scanner::error_token: the lexeme of an Error token is the message *)
error_token(sc, msg) == Token("Error", <<msg>>, sc.line)

(* the scanner and the token a call of scan_token leaves *)
Scanned(sc, tok) == [sc |-> sc, tok |-> tok]

(* the inner loop of skip_whitespace for a line comment *)
RECURSIVE SkipComment(_)
SkipComment(sc) ==
    IF ~Scanner_can_peek(sc) THEN ScannerPanic(sc)
    ELSE IF Scanner_peek(sc) # "\n" /\ ~Scanner_is_at_end(sc)
         THEN SkipComment(Scanner_advance(sc))
         ELSE sc

RECURSIVE skip_whitespace(_)
skip_whitespace(sc) ==
    IF sc.panicked \/ Scanner_is_at_end(sc) THEN sc
    ELSE LET c == Scanner_peek(sc)
         IN IF is_whitespace(c)
            THEN skip_whitespace(Scanner_advance(
                     IF c = "\n" THEN [sc EXCEPT !.line = sc.line + 1] ELSE sc))
            ELSE IF c = "/"
                 THEN IF Scanner_has_next(sc) /\ Scanner_peek_next(sc) = "/"
                      THEN skip_whitespace(SkipComment(sc))
                      ELSE sc
                 ELSE sc

(* Scanner::check_keyword; rest is given as its characters *)
check_keyword(sc, start, length, rest, kind) ==
    IF sc.current - sc.start = start + length
          /\ rest = SubSeq(sc.source, sc.start + start + 1, sc.start + start + length)
    THEN kind
    ELSE "Identifier"

(* Scanner::identifier_type *)
identifier_type(sc) ==
    LET c0 == sc.source[sc.start + 1]
        c1 == sc.source[sc.start + 2]
    IN CASE c0 = "a" -> check_keyword(sc, 1, 2, <<"n", "d">>, "And")
         [] c0 = "c" -> check_keyword(sc, 1, 4, <<"l", "a", "s", "s">>, "Class")
         [] c0 = "e" -> check_keyword(sc, 1, 3, <<"l", "s", "e">>, "Else")
         [] c0 = "f" ->
              IF sc.current - sc.start > 1
              THEN CASE c1 = "a" -> check_keyword(sc, 2, 3, <<"l", "s", "e">>, "False")
                     [] c1 = "o" -> check_keyword(sc, 2, 1, <<"r">>, "For")
                     [] c1 = "u" -> check_keyword(sc, 2, 1, <<"n">>, "Fun")
                     [] OTHER -> "Identifier"
              ELSE "Identifier"
         [] c0 = "i" -> check_keyword(sc, 1, 1, <<"f">>, "If")
         [] c0 = "n" -> check_keyword(sc, 1, 2, <<"i", "l">>, "Nil")
         [] c0 = "o" -> check_keyword(sc, 1, 1, <<"r">>, "Or")
         [] c0 = "p" -> check_keyword(sc, 1, 4, <<"r", "i", "n", "t">>, "Print")
         [] c0 = "r" -> check_keyword(sc, 1, 5, <<"e", "t", "u", "r", "n">>, "Return")
         [] c0 = "s" -> check_keyword(sc, 1, 4, <<"u", "p", "e", "r">>, "Super")
         [] c0 = "t" ->
              IF sc.current - sc.start > 1
              THEN CASE c1 = "h" -> check_keyword(sc, 2, 2, <<"i", "s">>, "This")
                     [] c1 = "r" -> check_keyword(sc, 2, 2, <<"u", "e">>, "True")
                     [] OTHER -> "Identifier"
              ELSE "Identifier"
         [] c0 = "v" -> check_keyword(sc, 1, 2, <<"a", "r">>, "Var")
         [] c0 = "w" -> check_keyword(sc, 1, 4, <<"h", "i", "l", "e">>, "While")
         [] OTHER -> "Identifier"

(* Scanner::identifier *)
RECURSIVE Scanner_identifier(_)
Scanner_identifier(sc) ==
    IF ~Scanner_can_peek(sc) THEN Scanned(ScannerPanic(sc), error_token(sc, "panic"))
    ELSE LET c == Scanner_peek(sc)
         IN IF is_alphabetic(c) \/ c = "_" \/ is_numeric(c)
            THEN Scanner_identifier(Scanner_advance(sc))
            ELSE Scanned(sc, make_token(sc, identifier_type(sc)))

(* the two digit loops of Scanner::number *)
RECURSIVE SkipDigits(_)
SkipDigits(sc) ==
    IF ~Scanner_can_peek(sc) THEN ScannerPanic(sc)
    ELSE IF is_numeric(Scanner_peek(sc)) THEN SkipDigits(Scanner_advance(sc)) ELSE sc

(* Scanner::number *)
Scanner_number(sc) ==
    LET whole == SkipDigits(sc)
        fraction ==
            IF whole.panicked THEN whole
            ELSE IF Scanner_peek(whole) = "." /\ Scanner_has_next(whole)
                       /\ is_numeric(Scanner_peek_next(whole))
                 THEN SkipDigits(Scanner_advance(whole))
                 ELSE whole
    IN Scanned(fraction, make_token(fraction, "Number"))

(* Scanner::string *)
RECURSIVE Scanner_string(_)
Scanner_string(sc) ==
    IF ~Scanner_can_peek(sc) THEN Scanned(ScannerPanic(sc), error_token(sc, "panic"))
    ELSE IF Scanner_peek(sc) # "\"" /\ ~Scanner_is_at_end(sc)
         THEN Scanner_string(Scanner_advance(
                  IF Scanner_peek(sc) = "\n" THEN [sc EXCEPT !.line = sc.line + 1] ELSE sc))
         ELSE IF Scanner_is_at_end(sc)
              THEN Scanned(sc, error_token(sc, "Unterminated string."))
              ELSE Scanned(Scanner_advance(sc), make_token(Scanner_advance(sc), "String"))

(* Scanner::matches *)
Scanner_matches(sc, c) == Scanner_can_peek(sc) /\ Scanner_peek(sc) = c

(* the token of one or two characters: kind2 when the next character is '=' *)
OneOrTwo(sc, kind2, kind1) ==
    IF Scanner_matches(sc, "=")
    THEN Scanned(Scanner_advance(sc), make_token(Scanner_advance(sc), kind2))
    ELSE Scanned(sc, make_token(sc, kind1))

(* Scanner::scan_token, from the character at start on *)
ScanCharacter(s) ==
    LET c == Scanner_peek(s)
        sc == Scanner_advance(s)
    IN IF is_alphabetic(c) \/ c = "_" THEN Scanner_identifier(sc)
       ELSE IF is_numeric(c) THEN Scanner_number(sc)
       ELSE CASE c = "(" -> Scanned(sc, make_token(sc, "LeftParen"))
              [] c = ")" -> Scanned(sc, make_token(sc, "RightParen"))
              [] c = "{" -> Scanned(sc, make_token(sc, "LeftBrace"))
              [] c = "}" -> Scanned(sc, make_token(sc, "RightBrace"))
              [] c = ";" -> Scanned(sc, make_token(sc, "Semicolon"))
              [] c = "," -> Scanned(sc, make_token(sc, "Comma"))
              [] c = "." -> Scanned(sc, make_token(sc, "Dot"))
              [] c = "-" -> Scanned(sc, make_token(sc, "Minus"))
              [] c = "+" -> Scanned(sc, make_token(sc, "Plus"))
              [] c = "/" -> Scanned(sc, make_token(sc, "Slash"))
              [] c = "*" -> Scanned(sc, make_token(sc, "Star"))
              [] c = "!" -> OneOrTwo(sc, "BangEqual", "Bang")
              [] c = "=" -> OneOrTwo(sc, "EqualEqual", "Equal")
              [] c = "<" -> OneOrTwo(sc, "LessEqual", "Less")
              [] c = ">" -> OneOrTwo(sc, "GreaterEqual", "Greater")
              [] c = "\"" -> Scanner_string(sc)
              [] OTHER -> Scanned(sc, error_token(sc, "Unexpected character."))

(* Scanner::scan_token *)
scan_token(sc) ==
    LET w == skip_whitespace(sc)
        s == [w EXCEPT !.start = w.current]
    IN IF w.panicked THEN Scanned(w, error_token(w, "panic"))
       ELSE IF Scanner_is_at_end(s) THEN Scanned(s, make_token(s, "Eof"))
       ELSE ScanCharacter(s)

(* The scanner as the parser sees it: scan_token depends on nothing but    *)
(* the scanner, so its successive calls yield one fixed stream of tokens,  *)
(* which ends with Eof (returned again by every later call) or with the    *)
(* scanner's panic.                                                        *)
(* the stream from the result r of a call on *)
RECURSIVE StreamFrom(_)
StreamFrom(r) ==
    IF r.sc.panicked THEN <<Token("Panic", <<>>, 0)>>
    ELSE IF r.tok.kind = "Eof" THEN <<r.tok>>
    ELSE <<r.tok>> \o StreamFrom(scan_token(r.sc))

(* the Scanner of a Parser: the text, its token stream, the calls of scan_token so far *)
Parser_scanner(source) ==
    [source |-> source, stream |-> StreamFrom(scan_token(Scanner_init(source))), calls |-> 0]

(* the token the next call of scan_token returns *)
NextToken(scanner) ==
    IF scanner.calls < Len(scanner.stream) THEN scanner.stream[scanner.calls + 1]
    ELSE scanner.stream[Len(scanner.stream)]

-----------------------------------------------------------------------------
(* chunk.rs: Chunk *)

Chunk_new == [code |-> <<>>, lines |-> <<>>, constants |-> <<>>]

(* Chunk::write_chunk; the u32::MAX limit on code.len() is out of reach *)
write_chunk(chunk, byte, line) ==
    [chunk EXCEPT !.code = Append(chunk.code, byte), !.lines = Append(chunk.lines, line)]

(* a write_u32 that records the line once for the four bytes *)
write_be_bytes_one_line(chunk, bytes, line) ==
    [chunk EXCEPT !.code = chunk.code \o bytes, !.lines = Append(chunk.lines, line)]

(* Chunk::write_u32, from the four big-endian bytes of the operand *)
write_be_bytes(chunk, bytes, line) ==
    [chunk EXCEPT !.code = chunk.code \o bytes,
                  !.lines = chunk.lines \o [i \in 1 .. Len(bytes) |-> line]]

write_u32(chunk, index, line) == write_be_bytes(chunk, to_be_bytes(index), line)

(* u32::MAX.to_be_bytes() *)
U32_MAX_BYTES == <<255, 255, 255, 255>>

(* Chunk::add_constant returns the index constants.len() - 1 after the push *)
add_constant(chunk, constant) == [chunk EXCEPT !.constants = Append(chunk.constants, constant)]

(* Chunk::size *)
size(chunk) == Len(chunk.code)

(* Chunk::disassemble_instruction: the offset of the next instruction *)
disassemble_instruction(code, offset) ==
    IF code[offset + 1] \in {OP_CONSTANT, OP_CLOSURE, OP_CALL, OP_JUMP_IF_FALSE, OP_JUMP, OP_LOOP,
                             OP_GET_LOCAL, OP_SET_LOCAL}
    THEN offset + 5
    ELSE offset + 1

(* Chunk::disassemble: the offsets at which it finds an instruction *)
RECURSIVE InstructionStarts(_, _)
InstructionStarts(code, offset) ==
    IF offset >= Len(code) THEN {}
    ELSE {offset} \cup InstructionStarts(code, disassemble_instruction(code, offset))

-----------------------------------------------------------------------------
(* compiler.rs: Precedence, Rule, get_rule *)

PREC_NONE == 0
PREC_ASSIGNMENT == 1
PREC_OR == 2
PREC_AND == 3
PREC_EQUALITY == 4
PREC_COMPARISON == 5
PREC_TERM == 6
PREC_FACTOR == 7
PREC_UNARY == 8
PREC_CALL == 9
PREC_PRIMARY == 10

(* a next that stays on the level of the operator *)
Precedence_same(p) == p

(* Precedence::next; there is none above Primary *)
Precedence_next(p) == p + 1

Rule_init(prefix, infix, precedence) ==
    [prefix |-> prefix, infix |-> infix, precedence |-> precedence]

get_rule(kind) ==
    CASE kind = "LeftParen" -> Rule_init("Grouping", "None", PREC_NONE)
      [] kind = "Minus" -> Rule_init("Unary", "Binary", PREC_TERM)
      [] kind = "Plus" -> Rule_init("None", "Binary", PREC_TERM)
      [] kind = "Slash" -> Rule_init("None", "Binary", PREC_FACTOR)
      [] kind = "Star" -> Rule_init("None", "Binary", PREC_FACTOR)
      [] kind = "Bang" -> Rule_init("Unary", "None", PREC_NONE)
      [] kind = "BangEqual" -> Rule_init("None", "Binary", PREC_EQUALITY)
      [] kind = "EqualEqual" -> Rule_init("None", "Binary", PREC_EQUALITY)
      [] kind = "Greater" -> Rule_init("None", "Binary", PREC_COMPARISON)
      [] kind = "GreaterEqual" -> Rule_init("None", "Binary", PREC_COMPARISON)
      [] kind = "Less" -> Rule_init("None", "Binary", PREC_COMPARISON)
      [] kind = "LessEqual" -> Rule_init("None", "Binary", PREC_COMPARISON)
      [] kind = "Identifier" -> Rule_init("Variable", "None", PREC_NONE)
      [] kind = "String" -> Rule_init("String", "None", PREC_NONE)
      [] kind = "Number" -> Rule_init("Number", "None", PREC_NONE)
      [] kind = "And" -> Rule_init("None", "And", PREC_AND)
      [] kind = "False" -> Rule_init("Literal", "None", PREC_NONE)
      [] kind = "Nil" -> Rule_init("Literal", "None", PREC_NONE)
      [] kind = "Or" -> Rule_init("None", "Or", PREC_OR)
      [] kind = "True" -> Rule_init("Literal", "None", PREC_NONE)
      [] OTHER -> Rule_init("None", "None", PREC_NONE)

-----------------------------------------------------------------------------
(* compiler.rs: Compiler (the locals and the scope depth)                  *)

(* Option::None, for a Local's depth (None until the initializer has been *)
(* compiled) and for the index resolve_local returns                       *)
None == -1

Local(token, depth) == [token |-> token, depth |-> depth]

Compiler_new == [locals |-> <<>>, scope_depth |-> 0]

Compiler_begin_scope(c) == [c EXCEPT !.scope_depth = c.scope_depth + 1]

(* usize subtraction: scope_depth - 1 at depth 0 overflows and panics *)
Compiler_end_scope(c) == [c EXCEPT !.scope_depth = c.scope_depth - 1]

variable_already_declared(c, token) ==
    \E i \in 1 .. Len(c.locals) :
        c.locals[i].token.lexeme = token.lexeme /\ c.locals[i].depth = c.scope_depth

add_local(c, token) == [c EXCEPT !.locals = Append(c.locals, Local(token, None))]

(* Compiler::locals_removed_from_stack: the Compiler it leaves, and the count it returns *)
LocalStays(c, l) == l.depth = None \/ l.depth <= c.scope_depth

locals_removed_from_stack(c) ==
    [c EXCEPT !.locals = SelectSeq(c.locals, LAMBDA l : LocalStays(c, l))]

locals_off_the_stack(c) == Len(SelectSeq(c.locals, LAMBDA l : ~LocalStays(c, l)))

-----------------------------------------------------------------------------
(* compiler.rs: Parser.  An operation of the parser is an operator from    *)
(* the Parser before to the Parser after.  panicked records a panic of the *)
(* Rust runtime inside the parser or its scanner; errors is what error_at  *)
(* has written on stderr.  todo is the parser's call stack: the calls and  *)
(* the rests of calls still to be made, the next one first.                *)

Parser_init(source) ==
    [scanner |-> Parser_scanner(source),
     compiler |-> Compiler_new,
     previous |-> Token("Error", <<"before file">>, 0),
     current |-> Token("Error", <<"before file">>, 0),
     chunk |-> Chunk_new,
     had_error |-> FALSE,
     panic_mode |-> FALSE,
     errors |-> <<>>,
     panicked |-> FALSE,
     todo |-> <<>>]

ParserPanic(P) == [P EXCEPT !.panicked = TRUE]

(* Parser::error_at; arg is what the caller has formatted into msg's {} *)
ErrorAt(P, at, msg, arg) ==
    IF P.panic_mode THEN P
    ELSE [P EXCEPT !.panic_mode = TRUE,
                   !.had_error = TRUE,
                   !.errors = Append(P.errors,
                                  [line |-> at.line,
                                   at |-> CASE at.kind = "Eof" -> <<"end">>
                                            [] at.kind = "Error" -> <<>>
                                            [] OTHER -> at.lexeme,
                                   msg |-> msg,
                                   arg |-> arg])]

error_at(P, at, msg) == ErrorAt(P, at, msg, <<>>)

error_at_current(P, msg) == error_at(P, P.current, msg)

(* Parser::advance, after a call of scan_token: Error tokens are reported and skipped *)
RECURSIVE AdvanceLoop(_)
AdvanceLoop(P) ==
    IF P.current.kind = "Panic" THEN ParserPanic(P)
    ELSE IF P.current.kind # "Error" THEN P
    ELSE AdvanceLoop([error_at_current(P, P.current.lexeme[1])
                         EXCEPT !.scanner.calls = P.scanner.calls + 1,
                                !.current = NextToken(P.scanner)])

advance(P) ==
    IF P.panicked THEN P
    ELSE AdvanceLoop([P EXCEPT !.previous = P.current,
                               !.scanner.calls = P.scanner.calls + 1,
                               !.current = NextToken(P.scanner)])

(* Parser::matches: what it returns; when that is true it has called advance *)
matches(P, kind) == P.current.kind = kind

(* Parser::consume *)
consume(P, kind, msg) == IF P.current.kind = kind THEN advance(P) ELSE error_at_current(P, msg)

(* Parser::emit_byte *)
emit_byte(P, b) == [P EXCEPT !.chunk = write_chunk(P.chunk, b, P.previous.line)]

(* Parser::emit_return *)
emit_return(P) == emit_byte(P, OP_RETURN)

(* Parser::end_compiler; disassemble only prints *)
end_compiler(P) == emit_return(P)

(* Parser::emit_constant *)
emit_constant(P, v) ==
    [P EXCEPT !.chunk = write_u32(write_chunk(add_constant(P.chunk, v), OP_CONSTANT,
                                              P.previous.line),
                                  Len(P.chunk.constants), P.previous.line)]

(* current_chunk().write_u32(index, line) *)
emit_u32(P, index, line) == [P EXCEPT !.chunk = write_u32(P.chunk, index, line)]

(* Parser::emit_loop *)
emit_loop(P, offset) ==
    LET emitted == emit_byte(P, OP_LOOP)
    IN emit_u32(emitted, (size(emitted.chunk) + 4) - offset, emitted.current.line)

(* Parser::emit_jump: the Parser it leaves *)
emit_jump(P, code) ==
    LET emitted == emit_byte(P, code)
    IN [emitted EXCEPT
           !.chunk = write_be_bytes(emitted.chunk, U32_MAX_BYTES, emitted.current.line)]

(* Parser::emit_jump: the offset it has returned, chunk.size() - 4 *)
emitted_jump(P) == size(P.chunk) - 4

(* a patch_jump that takes the jump from the first byte of the operand *)
patch_jump_from_operand(P, offset) ==
    [P EXCEPT !.chunk.code =
        [i \in 1 .. Len(P.chunk.code) |->
            IF i - 1 \in offset .. offset + 3
            THEN to_be_bytes(size(P.chunk) - offset)[i - offset]
            ELSE P.chunk.code[i]]]

(* Parser::patch_jump *)
patch_jump(P, offset) ==
    [P EXCEPT !.chunk.code =
        [i \in 1 .. Len(P.chunk.code) |->
            IF i - 1 \in offset .. offset + 3
            THEN to_be_bytes(size(P.chunk) - offset - 4)[i - offset]
            ELSE P.chunk.code[i]]]

(* Parser::begin_scope *)
begin_scope(P) == [P EXCEPT !.compiler = Compiler_begin_scope(P.compiler)]

(* the Pops of Parser::end_scope *)
RECURSIVE EmitPops(_, _)
EmitPops(P, n) == IF n = 0 THEN P ELSE EmitPops(emit_byte(P, OP_POP), n - 1)

(* Parser::end_scope *)
end_scope(P) ==
    EmitPops([P EXCEPT !.compiler = locals_removed_from_stack(Compiler_end_scope(P.compiler))],
             locals_off_the_stack(Compiler_end_scope(P.compiler)))

(* compiler.locals.last_mut().unwrap().depth = Some(compiler.scope_depth),  *)
(* lines 263-264 and 490-491                                               *)
mark_last(P) ==
    [P EXCEPT !.compiler.locals[Len(P.compiler.locals)].depth = P.compiler.scope_depth]

(* the calls are made next, then what was to do *)
Do(P, calls) == [P EXCEPT !.todo = calls \o P.todo]

(* f64::from_str on the lexeme of a Number token: digits [. digits] *)
RECURSIVE DigitsValue(_)
DigitsValue(cs) ==
    IF cs = <<>> THEN 0
    ELSE DigitsValue(SubSeq(cs, 1, Len(cs) - 1)) * 10
             + (CHOOSE d \in 0 .. 9 : Digits[d + 1] = cs[Len(cs)])

RECURSIVE Pow10(_)
Pow10(k) == IF k = 0 THEN 1 ELSE 10 * Pow10(k - 1)

(* point is the position of the decimal point, 0 when the lexeme has none *)
f64_from_str(lexeme) ==
    LET point == IF \E i \in 1 .. Len(lexeme) : lexeme[i] = "."
                 THEN CHOOSE i \in 1 .. Len(lexeme) : lexeme[i] = "."
                 ELSE 0
    IN IF point = 0 THEN from_number(DigitsValue(lexeme))
       ELSE Ratio(DigitsValue(SubSeq(lexeme, 1, point - 1)) * Pow10(Len(lexeme) - point)
                      + DigitsValue(SubSeq(lexeme, point + 1, Len(lexeme))),
                  Pow10(Len(lexeme) - point))

(* Parser::number *)
number(P) == emit_constant(P, f64_from_str(P.previous.lexeme))

(* Parser::string: the lexeme without its quotes *)
string(P) ==
    emit_constant(P, Value_string(SubSeq(P.previous.lexeme, 2, Len(P.previous.lexeme) - 1)))

(* Parser::literal *)
literal(P) ==
    CASE P.previous.kind = "Nil" -> emit_constant(P, Value_nil)
      [] P.previous.kind = "False" -> emit_constant(P, from_bool(FALSE))
      [] P.previous.kind = "True" -> emit_constant(P, from_bool(TRUE))
      [] OTHER -> ParserPanic(P)

(* a resolve_local that does not compare the names: the last local, if any *)
resolve_local_ignoring_name(P, name) ==
    IF P.compiler.locals = <<>> THEN None ELSE Len(P.compiler.locals) - 1

(* Parser::resolve_local: the index it returns, that of the last local of that name *)
resolve_local(P, name) ==
    LET named == {i \in 1 .. Len(P.compiler.locals) : P.compiler.locals[i].token.lexeme = name}
    IN IF named = {} THEN None
       ELSE (CHOOSE j \in named : \A k \in named : k <= j) - 1

(* Parser::resolve_local: the Parser it leaves *)
Resolved(P, name) ==
    IF resolve_local(P, name) # None
          /\ P.compiler.locals[resolve_local(P, name) + 1].depth = None
    THEN error_at_current(P, "Can't read local variable in its own initializer.")
    ELSE P

(* The calls of the parser's functions.  A function that calls others is   *)
(* cut at those calls.  A frame of todo is a function (at), the place in   *)
(* it to go on from (pc, 0 for a call) and the arguments and locals it     *)
(* needs there.  Where a function calls, it leaves on todo the call and,   *)
(* after it, its own frame at the place after the call.                    *)
Call(at) == [at |-> at, pc |-> 0]

Call_parse_precedence(prec) == [at |-> "parse_precedence", pc |-> 0, prec |-> prec]

(* Parser::expression *)
Call_expression == Call_parse_precedence(PREC_ASSIGNMENT)

(* Parser::variable.  pc 1: after expression(), lines 489-491 and 495-496 *)
variable(P, f) ==
    IF f.pc = 0
    THEN LET i == resolve_local(P, P.previous.lexeme)
             Q == Resolved(P, P.previous.lexeme)
         IN IF i # None
            THEN IF f.can_assign /\ matches(Q, "Equal")
                 THEN Do(advance(Q),
                         <<Call_expression,
                           [at |-> "variable", pc |-> 1, i |-> i, line |-> P.previous.line]>>)
                 ELSE emit_u32(emit_byte(Q, OP_GET_LOCAL), i, P.previous.line)
            ELSE ErrorAt(Q, Q.current, "Unknown variable '{}'.", P.previous.lexeme)
    ELSE emit_u32(mark_last(emit_byte(P, OP_SET_LOCAL)), f.i, f.line)

(* Parser::grouping.  pc 1: after expression(), line 530 *)
grouping(P, f) ==
    IF f.pc = 0
    THEN Do(P, <<Call_expression, [at |-> "grouping", pc |-> 1]>>)
    ELSE consume(P, "RightParen", "Expect ')' after expression.")

(* Parser::unary.  pc 1: after parse_precedence(), lines 538-542 *)
unary(P, f) ==
    IF f.pc = 0
    THEN Do(P, <<Call_parse_precedence(PREC_UNARY),
                 [at |-> "unary", pc |-> 1, op_type |-> P.previous.kind]>>)
    ELSE CASE f.op_type = "Minus" -> emit_byte(P, OP_NEGATE)
           [] f.op_type = "Bang" -> emit_byte(P, OP_NOT)
           [] OTHER -> ParserPanic(P)

(* Parser::binary.  pc 1: after parse_precedence(), lines 570-591 *)
binary(P, f) ==
    IF f.pc = 0
    THEN Do(P, <<Call_parse_precedence(Precedence_next(get_rule(P.previous.kind).precedence)),
                 [at |-> "binary", pc |-> 1, op_type |-> P.previous.kind]>>)
    ELSE CASE f.op_type = "Plus" -> emit_byte(P, OP_ADD)
           [] f.op_type = "Minus" -> emit_byte(P, OP_SUBSTRACT)
           [] f.op_type = "Star" -> emit_byte(P, OP_MULTIPLY)
           [] f.op_type = "Slash" -> emit_byte(P, OP_DIVIDE)
           [] f.op_type = "BangEqual" -> emit_byte(emit_byte(P, OP_EQUAL), OP_NOT)
           [] f.op_type = "EqualEqual" -> emit_byte(P, OP_EQUAL)
           [] f.op_type = "Less" -> emit_byte(P, OP_LESS)
           [] f.op_type = "LessEqual" -> emit_byte(emit_byte(P, OP_GREATER), OP_NOT)
           [] f.op_type = "Greater" -> emit_byte(P, OP_GREATER)
           [] f.op_type = "GreaterEqual" -> emit_byte(emit_byte(P, OP_LESS), OP_NOT)
           [] OTHER -> ParserPanic(P)

(* Parser::and.  pc 1: after parse_precedence(), line 551 *)
and(P, f) ==
    IF f.pc = 0
    THEN LET jumped == emit_jump(P, OP_JUMP_IF_FALSE)
         IN Do(emit_byte(jumped, OP_POP),
               <<Call_parse_precedence(PREC_AND),
                 [at |-> "and", pc |-> 1, end_jump |-> emitted_jump(jumped)]>>)
    ELSE patch_jump(P, f.end_jump)

(* Parser::or.  pc 1: after parse_precedence(), line 562 *)
or(P, f) ==
    IF f.pc = 0
    THEN LET else_jumped == emit_jump(P, OP_JUMP_IF_FALSE)
             end_jumped == emit_jump(else_jumped, OP_JUMP)
         IN Do(emit_byte(patch_jump(end_jumped, emitted_jump(else_jumped)), OP_POP),
               <<Call_parse_precedence(PREC_OR),
                 [at |-> "or", pc |-> 1, end_jump |-> emitted_jump(end_jumped)]>>)
    ELSE patch_jump(P, f.end_jump)

(* Parser::parse_precedence.  pc 0: lines 449-462, the prefix function of  *)
(* previous; pc 1: lines 464-476, one turn of the while loop or the end    *)
parse_precedence(P, f) ==
    IF f.pc = 0
    THEN LET advanced == advance(P)
             prefix == get_rule(advanced.previous.kind).prefix
             rest == [at |-> "parse_precedence", pc |-> 1, prec |-> f.prec]
         IN CASE prefix = "None" -> error_at_current(advanced, "Expect expression.")
              [] prefix = "Variable" ->
                    Do(advanced, <<[at |-> "variable", pc |-> 0,
                                    can_assign |-> f.prec <= PREC_ASSIGNMENT], rest>>)
              [] prefix = "Literal" -> literal(Do(advanced, <<rest>>))
              [] prefix = "Grouping" -> Do(advanced, <<Call("grouping"), rest>>)
              [] prefix = "Unary" -> Do(advanced, <<Call("unary"), rest>>)
              [] prefix = "Number" -> number(Do(advanced, <<rest>>))
              [] prefix = "String" -> string(Do(advanced, <<rest>>))
    ELSE IF f.prec <= get_rule(P.current.kind).precedence
         THEN LET advanced == advance(P)
                  infix == get_rule(advanced.previous.kind).infix
              IN CASE infix = "Binary" -> Do(advanced, <<Call("binary"), f>>)
                   [] infix = "And" -> Do(advanced, <<Call("and"), f>>)
                   [] infix = "Or" -> Do(advanced, <<Call("or"), f>>)
                   [] OTHER -> Do(advanced, <<f>>)
         ELSE IF f.prec <= PREC_ASSIGNMENT /\ matches(P, "Equal")
              THEN error_at_current(advance(P), "Invalid assigment target.")
              ELSE P

(* Parser::declare_variable *)
declare_variable(P) ==
    LET checked == IF variable_already_declared(P.compiler, P.previous)
                   THEN error_at_current(P, "Already a variable with this name in this scope.")
                   ELSE P
    IN [checked EXCEPT !.compiler = add_local(checked.compiler, P.previous)]

(* Parser::parse_variable *)
parse_variable(P, msg) == declare_variable(consume(P, "Identifier", msg))

(* Parser::var_declaration.  pc 1: after the initializer, lines 263-269 *)
var_declaration(P, f) ==
    IF f.pc = 0
    THEN LET named == parse_variable(P, "Expect variable name.")
         IN IF matches(named, "Equal")
            THEN Do(advance(named), <<Call_expression, [at |-> "var_declaration", pc |-> 1]>>)
            ELSE Do(emit_byte(named, OP_NIL), <<[at |-> "var_declaration", pc |-> 1]>>)
    ELSE consume(mark_last(P), "Semicolon", "Expect ';' after variable declaration.")

(* Parser::expression_statement.  pc 1: after expression(), line 326 *)
expression_statement(P, f) ==
    IF f.pc = 0
    THEN Do(P, <<Call_expression, [at |-> "expression_statement", pc |-> 1]>>)
    ELSE consume(P, "Semicolon", "Expect ';' after expression.")

(* Parser::print_statement.  pc 1: after expression(), lines 331-332 *)
print_statement(P, f) ==
    IF f.pc = 0
    THEN Do(P, <<Call_expression, [at |-> "print_statement", pc |-> 1]>>)
    ELSE emit_byte(consume(P, "Semicolon", "Expect ';' after value."), OP_PRINT)

(* a block whose loop goes on until the closing brace only *)
block_until_brace(P, f) ==
    IF f.pc = 0
    THEN Do(begin_scope(P), <<[at |-> "block", pc |-> 1]>>)
    ELSE IF P.current.kind # "RightBrace"
         THEN Do(P, <<Call("declaration"), f>>)
         ELSE end_scope(consume(P, "RightBrace", "Expect '}' after block."))

(* Parser::block.  pc 1: lines 304-309, one turn of the while loop or the end *)
block(P, f) ==
    IF f.pc = 0
    THEN Do(begin_scope(P), <<[at |-> "block", pc |-> 1]>>)
    ELSE IF P.current.kind # "RightBrace" /\ P.current.kind # "Eof"
         THEN Do(P, <<Call("declaration"), f>>)
         ELSE end_scope(consume(P, "RightBrace", "Expect '}' after block."))

(* Parser::if_statement.  pc 1: after the condition, lines 338-343;       *)
(* pc 2: after the then branch, lines 345-352; pc 3: after the else       *)
(* branch, line 352                                                       *)
if_statement(P, f) ==
    CASE f.pc = 0 ->
            Do(consume(P, "LeftParen", "Expect '(' after 'if'."),
               <<Call_expression, [at |-> "if_statement", pc |-> 1]>>)
      [] f.pc = 1 ->
            LET jumped == emit_jump(consume(P, "RightParen", "Expect ')' after condition."),
                                    OP_JUMP_IF_FALSE)
            IN Do(emit_byte(jumped, OP_POP),
                  <<Call("statement"),
                    [at |-> "if_statement", pc |-> 2, then_jump |-> emitted_jump(jumped)]>>)
      [] f.pc = 2 ->
            LET jumped == emit_jump(P, OP_JUMP)
                patched == emit_byte(patch_jump(jumped, f.then_jump), OP_POP)
            IN IF matches(patched, "Else")
               THEN Do(advance(patched),
                       <<Call("statement"),
                         [at |-> "if_statement", pc |-> 3, else_jump |-> emitted_jump(jumped)]>>)
               ELSE patch_jump(patched, emitted_jump(jumped))
      [] f.pc = 3 -> patch_jump(P, f.else_jump)

(* Parser::while_statement.  pc 1: after the condition, lines 359-364;    *)
(* pc 2: after the body, lines 365-368                                    *)
while_statement(P, f) ==
    CASE f.pc = 0 ->
            Do(consume(P, "LeftParen", "Expect '(' after 'while'."),
               <<Call_expression,
                 [at |-> "while_statement", pc |-> 1, loop_start |-> size(P.chunk)]>>)
      [] f.pc = 1 ->
            LET jumped == emit_jump(consume(P, "RightParen", "Expect ')' after condition."),
                                    OP_JUMP_IF_FALSE)
            IN Do(emit_byte(jumped, OP_POP),
                  <<Call("statement"),
                    [at |-> "while_statement", pc |-> 2, loop_start |-> f.loop_start,
                     end_jump |-> emitted_jump(jumped)]>>)
      [] f.pc = 2 -> emit_byte(patch_jump(emit_loop(P, f.loop_start), f.end_jump), OP_POP)

(* Parser::for_statement.  pc 1: after the initializer, lines 383-386;    *)
(* pc 2: after the condition, lines 387-390; pc 3: lines 393-396 and 405; *)
(* pc 4: after the increment, lines 397-405; pc 5: after the body, lines  *)
(* 407-415.  exit_jump is None when the loop has no condition.            *)
for_statement(P, f) ==
    CASE f.pc = 0 ->
            LET opened == consume(begin_scope(P), "LeftParen", "Expect '(' after 'for'.")
                rest == [at |-> "for_statement", pc |-> 1]
            IN IF matches(opened, "Semicolon") THEN Do(advance(opened), <<rest>>)
               ELSE IF matches(opened, "Var")
                    THEN Do(advance(opened), <<Call("var_declaration"), rest>>)
                    ELSE Do(opened, <<Call("expression_statement"), rest>>)
      [] f.pc = 1 ->
            IF ~matches(P, "Semicolon")
            THEN Do(P, <<Call_expression,
                         [at |-> "for_statement", pc |-> 2, loop_start |-> size(P.chunk)]>>)
            ELSE Do(advance(P),
                    <<[at |-> "for_statement", pc |-> 3, loop_start |-> size(P.chunk),
                       exit_jump |-> None]>>)
      [] f.pc = 2 ->
            LET jumped == emit_jump(consume(P, "Semicolon", "Expect ';' after loop condition."),
                                    OP_JUMP_IF_FALSE)
            IN Do(emit_byte(jumped, OP_POP),
                  <<[at |-> "for_statement", pc |-> 3, loop_start |-> f.loop_start,
                     exit_jump |-> emitted_jump(jumped)]>>)
      [] f.pc = 3 ->
            IF ~matches(P, "RightParen")
            THEN LET jumped == emit_jump(P, OP_JUMP)
                 IN Do(jumped,
                       <<Call_expression,
                         [at |-> "for_statement", pc |-> 4, loop_start |-> f.loop_start,
                          exit_jump |-> f.exit_jump, body_jump |-> emitted_jump(jumped),
                          increment_start |-> size(jumped.chunk)]>>)
            ELSE Do(advance(P),
                    <<Call("statement"),
                      [at |-> "for_statement", pc |-> 5, loop_start |-> f.loop_start,
                       exit_jump |-> f.exit_jump]>>)
      [] f.pc = 4 ->
            Do(patch_jump(emit_loop(consume(emit_byte(P, OP_POP), "RightParen",
                                            "Expect ')' after for clauses."),
                                    f.loop_start),
                          f.body_jump),
               <<Call("statement"),
                 [at |-> "for_statement", pc |-> 5, loop_start |-> f.increment_start,
                  exit_jump |-> f.exit_jump]>>)
      [] f.pc = 5 ->
            LET looped == emit_loop(P, f.loop_start)
            IN end_scope(IF f.exit_jump # None
                         THEN emit_byte(patch_jump(looped, f.exit_jump), OP_POP)
                         ELSE looped)

(* Parser::statement *)
statement(P) ==
    CASE matches(P, "Print") -> Do(advance(P), <<Call("print_statement")>>)
      [] matches(P, "LeftBrace") -> Do(advance(P), <<Call("block")>>)
      [] matches(P, "If") -> Do(advance(P), <<Call("if_statement")>>)
      [] matches(P, "While") -> Do(advance(P), <<Call("while_statement")>>)
      [] matches(P, "For") -> Do(advance(P), <<Call("for_statement")>>)
      [] OTHER -> Do(P, <<Call("expression_statement")>>)

(* Parser::synchronize, lines 236-252 *)
RECURSIVE SynchronizeLoop(_)
SynchronizeLoop(P) ==
    IF P.panicked \/ P.current.kind = "Eof" THEN P
    ELSE IF P.previous.kind = "Semicolon" THEN P
    ELSE IF P.current.kind \in {"Class", "Fun", "For", "If", "While", "Var", "Print", "Return"}
         THEN P
    ELSE SynchronizeLoop(advance(P))

(* a synchronize that forgets the error along with the panic *)
synchronize_clearing_had_error(P) ==
    SynchronizeLoop([P EXCEPT !.panic_mode = FALSE, !.had_error = FALSE])

(* Parser::synchronize *)
synchronize(P) == SynchronizeLoop([P EXCEPT !.panic_mode = FALSE])

(* Parser::declaration.  pc 1: after the declaration, lines 228-230 *)
declaration(P, f) ==
    IF f.pc = 0
    THEN IF matches(P, "Var")
         THEN Do(advance(P), <<Call("var_declaration"), [at |-> "declaration", pc |-> 1]>>)
         ELSE Do(P, <<Call("statement"), [at |-> "declaration", pc |-> 1]>>)
    ELSE IF P.panic_mode THEN synchronize(P) ELSE P

(* the frame f, taken from todo, goes on to its next call or to its return *)
Step(P, f) ==
    CASE f.at = "declaration" -> declaration(P, f)
      [] f.at = "var_declaration" -> var_declaration(P, f)
      [] f.at = "statement" -> statement(P)
      [] f.at = "expression_statement" -> expression_statement(P, f)
      [] f.at = "print_statement" -> print_statement(P, f)
      [] f.at = "block" -> block(P, f)
      [] f.at = "if_statement" -> if_statement(P, f)
      [] f.at = "while_statement" -> while_statement(P, f)
      [] f.at = "for_statement" -> for_statement(P, f)
      [] f.at = "parse_precedence" -> parse_precedence(P, f)
      [] f.at = "variable" -> variable(P, f)
      [] f.at = "grouping" -> grouping(P, f)
      [] f.at = "unary" -> unary(P, f)
      [] f.at = "binary" -> binary(P, f)
      [] f.at = "and" -> and(P, f)
      [] f.at = "or" -> or(P, f)

(* the frames of todo go on until none is left, or until a panic *)
RECURSIVE Run(_)
Run(P) ==
    IF P.panicked \/ P.todo = <<>> THEN P
    ELSE Run(Step([P EXCEPT !.todo = Tail(P.todo)], Head(P.todo)))

-----------------------------------------------------------------------------
(* The source texts run_file is given.  A text is written as its words,    *)
(* which Text joins with single spaces; a word is its characters.          *)

MaxStmts == 2

w_print == <<"p", "r", "i", "n", "t">>
w_var == <<"v", "a", "r">>
w_if == <<"i", "f">>
w_else == <<"e", "l", "s", "e">>
w_while == <<"w", "h", "i", "l", "e">>
w_for == <<"f", "o", "r">>
w_and == <<"a", "n", "d">>
w_or == <<"o", "r">>
w_true == <<"t", "r", "u", "e">>
w_false == <<"f", "a", "l", "s", "e">>
w_nil == <<"n", "i", "l">>
w_str == <<"\"", "s", "\"">>
w_a == <<"a">>
w_b == <<"b">>
w_i == <<"i">>
w_1 == <<"1">>
w_2 == <<"2">>
w_half == <<"0", ".", "5">>
w_lp == <<"(">>
w_rp == <<")">>
w_lb == <<"{">>
w_rb == <<"}">>
w_semi == <<";">>
w_eq == <<"=">>
w_plus == <<"+">>
w_minus == <<"-">>
w_lt == <<"<">>
w_bang == <<"!">>

RECURSIVE Text(_)
Text(words) ==
    IF words = <<>> THEN <<>>
    ELSE IF Len(words) = 1 THEN words[1]
    ELSE words[1] \o <<" ">> \o Text(Tail(words))

BinaryOperators ==
    {<<"+">>, <<"-">>, <<"*">>, <<"/">>, <<"=", "=">>, <<"!", "=">>,
     <<"<">>, <<"<", "=">>, <<">">>, <<">", "=">>}

Literals == {<<w_1>>, <<w_2>>, <<w_half>>, <<w_true>>, <<w_false>>, <<w_nil>>, <<w_str>>}

(* expressions of literals and binary operators whose value depends on    *)
(* the grouping, each with the value of the usual grouping:                *)
(* 2 - 1 * 2   2 * 2 - 1   2 - 1 - 1   2 / 2 * 2   1 + 1 < 2 == false       *)
PrecedenceCases ==
    {<<<<w_2, w_minus, w_1, <<"*">>, w_2>>, from_number(0)>>,
     <<<<w_2, <<"*">>, w_2, w_minus, w_1>>, from_number(3)>>,
     <<<<w_2, w_minus, w_1, w_minus, w_1>>, from_number(0)>>,
     <<<<w_2, <<"/">>, w_2, <<"*">>, w_2>>, from_number(2)>>,
     <<<<w_1, w_plus, w_1, w_lt, w_2, <<"=", "=">>, w_false>>, from_bool(TRUE)>>}

(* the operands of the and/or cases: a literal and its value *)
Operands ==
    {<<w_true, from_bool(TRUE)>>, <<w_false, from_bool(FALSE)>>, <<w_nil, Value_nil>>,
     <<w_1, from_number(1)>>}

(* a and b, a or b over the operands, each with the value of the           *)
(* short-circuit evaluation; false and -"s", true or -"s", whose right     *)
(* operand fails when it is evaluated                                      *)
ShortCircuitCases ==
    {<<<<x[1], w_and, y[1]>>, IF Falsy(x[2]) THEN x[2] ELSE y[2]>> : x \in Operands, y \in Operands}
    \cup {<<<<x[1], w_or, y[1]>>, IF Falsy(x[2]) THEN y[2] ELSE x[2]>> : x \in Operands, y \in Operands}
    \cup {<<<<w_false, w_and, w_minus, w_str>>, from_bool(FALSE)>>,
          <<<<w_true, w_or, w_minus, w_str>>, from_bool(TRUE)>>}

Exprs ==
    Literals
    \cup {c[1] : c \in ShortCircuitCases}
    \cup {c[1] : c \in PrecedenceCases}
    \cup {<<w_minus, w_1>>, <<w_bang, w_true>>, <<w_bang, w_nil>>, <<w_minus, w_str>>}
    \cup {x \o <<op>> \o y : x \in {<<w_1>>, <<w_str>>}, y \in {<<w_2>>, <<w_str>>},
                             op \in BinaryOperators}
    \cup {x \o <<op>> \o y : x, y \in {<<w_true>>, <<w_false>>, <<w_nil>>, <<w_1>>},
                             op \in {w_and, w_or}}
    \cup {<<w_lp, w_1, w_plus, w_2, w_rp, <<"*">>, w_2>>,
          <<w_1, w_plus, w_2, <<"*">>, w_2>>,
          <<w_1, <<"*">>, w_2, w_plus, w_2>>,
          <<w_1, w_minus, w_minus, w_2>>,
          <<w_1, w_lt, w_2, <<"=", "=">>, w_true>>,
          <<w_true, w_and, w_false, w_or, w_1>>,
          <<w_true, w_or, w_false, w_and, w_1>>,
          <<w_a>>, <<w_a, w_plus, w_1>>, <<w_a, w_eq, w_2>>, <<w_a, w_eq, w_a, w_plus, w_1>>,
          <<w_b>>}

Conds ==
    {<<w_true>>, <<w_false>>, <<w_nil>>, <<w_1, w_lt, w_2>>, <<w_a, w_lt, w_2>>,
     <<w_true, w_and, w_false>>, <<w_false, w_or, w_true>>}

(* the statements of one line *)
SmallStmts ==
    {<<w_print, w_1, w_semi>>,
     <<w_print, w_a, w_semi>>,
     <<w_var, w_a, w_semi>>,
     <<w_var, w_a, w_eq, w_1, w_semi>>,
     <<w_var, w_b, w_eq, w_a, w_semi>>,
     <<w_a, w_eq, w_a, w_plus, w_1, w_semi>>,
     <<w_1, w_semi>>,
     <<w_lb, w_rb>>,
     <<w_lb, w_var, w_b, w_eq, w_2, w_semi, w_print, w_b, w_semi, w_rb>>,
     <<w_lb, w_var, w_a, w_eq, w_2, w_semi, w_lb, w_var, w_a, w_semi, w_rb, w_rb>>}

Bodies ==
    {<<w_print, w_1, w_semi>>,
     <<w_a, w_eq, w_a, w_plus, w_1, w_semi>>,
     <<w_lb, w_rb>>,
     <<w_lb, w_var, w_b, w_eq, w_1, w_semi, w_rb>>,
     <<w_if, w_lp, w_false, w_rp, w_print, w_2, w_semi>>,
     <<w_while, w_lp, w_false, w_rp, w_lb, w_rb>>}

ForInits == {<<w_semi>>, <<w_var, w_i, w_eq, w_1, w_semi>>, <<w_a, w_eq, w_1, w_semi>>}

ForConds == {<<w_semi>>, <<w_false, w_semi>>, <<w_i, w_lt, w_2, w_semi>>}

ForIncrs == {<<>>, <<w_i, w_eq, w_i, w_plus, w_1>>}

ControlStmts ==
    {<<w_if, w_lp>> \o c \o <<w_rp>> \o s : c \in Conds, s \in Bodies}
    \cup {<<w_if, w_lp>> \o c \o <<w_rp>> \o s \o <<w_else>> \o t :
              c \in {<<w_true>>, <<w_false>>, <<w_a, w_lt, w_2>>}, s \in Bodies, t \in Bodies}
    \cup {<<w_while, w_lp>> \o c \o <<w_rp>> \o s : c \in Conds, s \in Bodies}
    \cup {<<w_for, w_lp>> \o i \o c \o n \o <<w_rp>> \o s :
              i \in ForInits, c \in ForConds, n \in ForIncrs, s \in Bodies}

Stmts ==
    SmallStmts \cup ControlStmts
    \cup {<<w_print>> \o e \o <<w_semi>> : e \in Exprs}
    \cup {<<w_var, w_b, w_eq>> \o e \o <<w_semi>> : e \in Exprs}

(* texts that are not programs, or that end in the middle of a token *)
Malformed ==
    {<<w_print, w_semi>>,
     <<w_print, w_1>>,
     <<w_var, w_a, w_eq, w_a, w_semi>>,
     <<w_lb, w_var, w_a, w_semi, w_var, w_a, w_semi, w_rb>>,
     <<w_1, w_eq, w_2, w_semi>>,
     <<w_var, w_1, w_semi, w_print, w_1, w_semi>>,
     <<w_print, w_1, w_plus, w_semi, w_print, w_semi, w_print, w_2, w_semi>>,
     <<w_lb, w_print, w_1, w_semi>>,
     <<<<"@">>, w_print, w_1, w_semi>>,
     <<w_print, w_a>>,
     <<w_print, w_1, w_semi, <<"/", "/">>, w_a>>,
     <<w_print, <<"\"", "s">>>>}

(* declarations that refer to the declared variable in the initializer:    *)
(* var b = b + 1;   { var a = 1; { var a = a; } }                          *)
(* var a = 1; var b = a = b;   var a = 1; var b = (a = 2) + b;             *)
OwnInitializers ==
    {<<w_var, w_b, w_eq, w_b, w_plus, w_1, w_semi>>,
     <<w_lb, w_var, w_a, w_eq, w_1, w_semi, w_lb, w_var, w_a, w_eq, w_a, w_semi, w_rb, w_rb>>,
     <<w_var, w_a, w_eq, w_1, w_semi, w_var, w_b, w_eq, w_a, w_eq, w_b, w_semi>>,
     <<w_var, w_a, w_eq, w_1, w_semi,
       w_var, w_b, w_eq, w_lp, w_a, w_eq, w_2, w_rp, w_plus, w_b, w_semi>>}

(* an initializer that reads the declared variable after the value of an  *)
(* assignment has been popped:   var a = true; var b = (a = true) and b;   *)
ReadsOfUnpushedLocal ==
    {<<w_var, w_a, w_eq, w_true, w_semi,
       w_var, w_b, w_eq, w_lp, w_a, w_eq, w_true, w_rp, w_and, w_b, w_semi>>}

(* an assignment, inside a block, to a variable of the enclosing scope:    *)
(* var a = 1; { a = 2; } print a;                                          *)
AssignmentsInBlock ==
    {<<w_var, w_a, w_eq, w_1, w_semi, w_lb, w_a, w_eq, w_2, w_semi, w_rb, w_print, w_a, w_semi>>}

(* programs that read variables, each with what it is to print:           *)
(* var a = 1; print a;   1; var a = 2; print a;                            *)
(* var a = 1; { var b = 2; print b; } print a;                             *)
ReadCases ==
    {<<<<w_var, w_a, w_eq, w_1, w_semi, w_print, w_a, w_semi>>, <<from_number(1)>>>>,
     <<<<w_1, w_semi, w_var, w_a, w_eq, w_2, w_semi, w_print, w_a, w_semi>>, <<from_number(2)>>>>,
     <<<<w_var, w_a, w_eq, w_1, w_semi,
         w_lb, w_var, w_b, w_eq, w_2, w_semi, w_print, w_b, w_semi, w_rb,
         w_print, w_a, w_semi>>, <<from_number(2), from_number(1)>>>>}

(* a name declared again in a sibling block, and in a nested block after   *)
(* an assignment to the outer variable:                                    *)
(* { var a; } { var a; }   var a = 1; { a = 2; var a = 1; }                *)
Shadowings ==
    {<<w_lb, w_var, w_a, w_semi, w_rb, w_lb, w_var, w_a, w_semi, w_rb>>,
     <<w_var, w_a, w_eq, w_1, w_semi,
       w_lb, w_a, w_eq, w_2, w_semi, w_var, w_a, w_eq, w_1, w_semi, w_rb>>}

(* a character that is no token among the tokens synchronize skips:        *)
(* print + 1 @ 2 ; print ;                                                 *)
ErrorsWhileSkipping ==
    {<<w_print, w_plus, w_1, <<"@">>, w_2, w_semi, w_print, w_semi>>}

(* a string literal left open, over two lines: print "s<newline>s *)
UnterminatedStrings == {<<w_print, <<"\"", "s", "\n", "s">>>>}

Concat2(ss) == IF ss = <<>> THEN <<>> ELSE Concat(ss)

WordSequences ==
    {Concat2(ss) : ss \in UNION {[1 .. n -> SmallStmts] : n \in 0 .. MaxStmts}}
    \cup Stmts
    \cup {<<w_var, w_a, w_eq, w_1, w_semi>> \o s : s \in Stmts}
    \cup Malformed
    \cup OwnInitializers
    \cup {c[1] : c \in ReadCases}
    \cup AssignmentsInBlock
    \cup ReadsOfUnpushedLocal
    \cup Shadowings
    \cup ErrorsWhileSkipping
    \cup UnterminatedStrings

(* a runtime error on the second line, behind a patched jump:              *)
(* if ( true )<newline>print - "s" ;                                       *)
ErrorsAfterJump ==
    {Text(<<w_if, w_lp, w_true, w_rp>>) \o <<"\n">> \o Text(<<w_print, w_minus, w_str, w_semi>>)}

Sources ==
    {Text(ws) : ws \in WordSequences} \cup {Text(<<w_print, w_2, w_semi>>) \o <<"\n">>}
    \cup ErrorsAfterJump

-----------------------------------------------------------------------------
(* main.rs run_file with compiler.rs Parser::compile: the source is        *)
(* compiled one declaration at a step, then the VM runs the chunk          *)

InitCompile ==
    /\ \E source \in Sources : parser = Parser_init(source)
    /\ program = Function(0, 0, "<script>", <<>>, <<>>)
    /\ frames = <<>>
    /\ stack = <<>>
    /\ cells = <<>>
    /\ status = "start"
    /\ output = <<>>
    /\ errlog = <<>>
    /\ captured = <<>>
    /\ callerLen = <<>>
    /\ interp = [phase |-> "none"]

(* the parser goes on, or the process has aborted in it *)
Compiling(P) ==
    /\ parser' = P
    /\ status' = IF P.panicked THEN "panic" ELSE "compiling"
    /\ UNCHANGED <<program, frames, stack, cells, output, errlog, captured, callerLen, interp>>

(* compile, lines 175-177 *)
Compile_advance ==
    /\ status = "start"
    /\ Compiling(advance([parser EXCEPT !.chunk = Chunk_new]))

(* compile, lines 178-180: one turn of the loop *)
Compile_declaration ==
    /\ status = "compiling"
    /\ parser.current.kind # "Eof"
    /\ Compiling(Run(Do(parser, <<Call("declaration")>>)))

(* compile, lines 178 and 181-188: Eof is matched, consumed, and Return is *)
(* emitted; then run_file, lines 315-328, on the chunk compile returns     *)
Compile_end ==
    /\ status = "compiling"
    /\ parser.current.kind = "Eof"
    /\ LET P == end_compiler(consume(advance(parser), "Eof", "Expect end of expression."))
       IN /\ parser' = P
          /\ IF P.panicked
             THEN status' = "panic" /\ UNCHANGED <<program, frames>>
             ELSE IF P.had_error
                  THEN status' = "compile_error" /\ UNCHANGED <<program, frames>>
                  ELSE /\ status' = "running"
                       /\ program' = [Function(0, 0, "<script>", P.chunk.code, P.chunk.constants)
                                         EXCEPT !.lines = P.chunk.lines]
                       /\ frames' = <<ScriptFrame>>
    /\ UNCHANGED <<stack, cells, output, errlog, captured, callerLen, interp>>

(* texts that end where the parser expects more, or hold tokens where it  *)
(* expects none                                                            *)
Unfinished ==
    {<<w_if, w_lp>>, <<w_if, w_lp, w_true, w_rp>>, <<w_while>>, <<w_while, w_lp, w_1, w_lt>>,
     <<w_for, w_lp, w_semi, w_semi>>, <<w_for, w_lp, w_var, w_i>>, <<w_lb, w_lb>>,
     <<w_lb, w_lb, w_var, w_a, w_semi, w_rb>>, <<w_lp, w_lp, w_lp>>, <<w_1, w_plus>>,
     <<w_var>>, <<w_var, w_a, w_eq>>, <<w_rb, w_rb>>, <<w_rp, w_semi>>, <<w_else>>,
     <<w_eq, w_eq>>, <<<<"@">>, <<"@">>>>, <<w_1, w_and>>, <<w_bang>>,
     <<w_lb, w_print, w_semi, w_rb, w_print, w_1, w_semi>>,
     <<w_print, w_1, w_plus, w_2, <<"*">>, w_2, w_minus, w_1, w_semi>>}

(* the texts the parser is followed through step by step *)
ParseSources ==
    {Text(ws) : ws \in Unfinished \cup Malformed \cup OwnInitializers \cup Shadowings
                         \cup ErrorsWhileSkipping \cup UnterminatedStrings \cup SmallStmts
                         \cup {<<w_for, w_lp, w_semi, w_semi, w_rp, w_lb, w_rb>>,
                               <<w_for, w_lp, w_var, w_i, w_semi, w_semi, w_i, w_rp, w_semi>>,
                               <<w_while, w_lp, w_true, w_rp, w_lb, w_rb>>,
                               <<w_if, w_lp, w_true, w_rp, w_lb, w_rb, w_else, w_lb, w_rb>>}}

InitParse ==
    /\ \E source \in ParseSources : parser = Parser_init(source)
    /\ program = Function(0, 0, "<script>", <<>>, <<>>)
    /\ frames = <<>>
    /\ stack = <<>>
    /\ cells = <<>>
    /\ status = "start"
    /\ output = <<>>
    /\ errlog = <<>>
    /\ captured = <<>>
    /\ callerLen = <<>>
    /\ interp = [phase |-> "none"]

(* compile, lines 178-180, a call or a return at a step: the loop of       *)
(* compile calls declaration                                               *)
Parse_declaration ==
    /\ status = "compiling"
    /\ parser.todo = <<>>
    /\ parser.current.kind # "Eof"
    /\ Compiling(Do(parser, <<Call("declaration")>>))

(* the function on top of the parser's call stack goes on to its next      *)
(* call or to its return                                                   *)
Parse_step ==
    /\ status = "compiling"
    /\ parser.todo # <<>>
    /\ Compiling(Step([parser EXCEPT !.todo = Tail(parser.todo)], Head(parser.todo)))

(* compile, lines 178 and 181-188, when no declaration is under way *)
Parse_end == parser.todo = <<>> /\ Compile_end

NextParse ==
    \/ Compile_advance
    \/ Parse_declaration
    \/ Parse_step
    \/ Parse_end

(* compile runs to its end: no step of it is put off forever *)
SpecParse == InitParse /\ [][NextParse]_vars /\ WF_vars(NextParse)

(* The instructions a compiled chunk holds: this compiler emits no Call,   *)
(* Closure, GetUpvalue, SetUpvalue or Debug.                               *)
NextCompile ==
    \/ Compile_advance
    \/ Compile_declaration
    \/ Compile_end
    \/ OpReturn
    \/ OpConstant
    \/ OpDivide
    \/ OpAdd
    \/ OpNegate
    \/ OpMultiply
    \/ OpSubstract
    \/ OpNot
    \/ OpEqual
    \/ OpLess
    \/ OpGreater
    \/ OpPrint
    \/ OpNil
    \/ OpPop
    \/ OpJumpIfFalse
    \/ OpJump
    \/ OpLoop
    \/ OpGetLocal
    \/ OpSetLocal

SpecCompile == InitCompile /\ [][NextCompile]_vars

-----------------------------------------------------------------------------
(* Claims about the compiler and the code it emits, checked under SpecCompile *)

(* compile has returned Some(chunk) and run_file has handed it to the VM *)
Compiled == status \in {"running", "ok", "runtime_error", "panic"} /\ ~parser.panicked

(* the u32 operand of the instruction at offset *)
Operand(code, offset) == from_be_bytes(SubSeq(code, offset + 2, offset + 5))

(* the ip a jump instruction at offset leaves: the position after its     *)
(* operand, plus the operand, or minus the operand for Loop                *)
JumpTarget(code, offset) ==
    IF code[offset + 1] = OP_LOOP
    THEN offset + 5 - Operand(code, offset)
    ELSE offset + 5 + Operand(code, offset)

JumpsAt(code) ==
    {offset \in InstructionStarts(code, 0) :
        code[offset + 1] \in {OP_JUMP_IF_FALSE, OP_JUMP, OP_LOOP}}

(* C7: in the chunk of a program that compiles without error, every        *)
(* JumpIfFalse, Jump and Loop leaves an ip within 0..code.len() that is    *)
(* the first byte of an instruction.                                       *)
C7_JumpsLandOnInstructions ==
    Compiled =>
        \A offset \in JumpsAt(program.code) :
            /\ program.code[offset + 2] < 128
            /\ JumpTarget(program.code, offset) \in 0 .. Len(program.code)
            /\ JumpTarget(program.code, offset) \in InstructionStarts(program.code, 0)

(* a compiled for loop with a condition and an increment is about to run:  *)
(* its chunk holds a JumpIfFalse, a Jump and two Loops                     *)
C7_Witness ==
    /\ Compiled
    /\ status = "running"
    /\ \E j \in JumpsAt(program.code) : program.code[j + 1] = OP_JUMP_IF_FALSE
    /\ \E j \in JumpsAt(program.code) : program.code[j + 1] = OP_JUMP
    /\ Cardinality({j \in JumpsAt(program.code) : program.code[j + 1] = OP_LOOP}) = 2

(* C8: every chunk the compiler produces ends with Nil then Return, and    *)
(* the Return at its end finds a value on the stack.                       *)
C8_ChunkEndsWithNilReturn ==
    Compiled =>
        /\ Len(program.code) >= 2
        /\ program.code[Len(program.code) - 1] = OP_NIL
        /\ program.code[Len(program.code)] = OP_RETURN
        /\ (Running /\ Len(frames) = 1 /\ frame.ip = Len(program.code) - 1) => CanPeek(0)

(* compile has returned, with or without a chunk *)
Returned == status \notin {"start", "compiling"} /\ ~parser.panicked

(* the messages error_at has written *)
Reported(msg) == \E k \in 1 .. Len(parser.errors) : parser.errors[k].msg = msg

(* the tokens of the source, as the scanner yields them *)
Tokens == parser.scanner.stream

(* the token at j is a reference to the variable that a `var x =` at i     *)
(* declares, inside the initializer: no `;` lies between the two           *)
InOwnInitializer(i, j) ==
    /\ Tokens[i].kind = "Var"
    /\ Tokens[i + 1].kind = "Identifier"
    /\ Tokens[i + 2].kind = "Equal"
    /\ j > i + 2
    /\ Tokens[j].kind = "Identifier"
    /\ Tokens[j].lexeme = Tokens[i + 1].lexeme
    /\ \A k \in i + 3 .. j : Tokens[k].kind # "Semicolon"

(* C14: a source in which a variable is referred to inside the initializer *)
(* of its own declaration does not compile: compile returns nothing and    *)
(* has reported "Can't read local variable in its own initializer.",       *)
(* whatever precedes the reference inside the initializer.                 *)
C14_OwnInitializerReadIsError ==
    (Returned /\ \E i \in 1 .. Len(Tokens) - 3, j \in 1 .. Len(Tokens) : InOwnInitializer(i, j))
        => /\ status = "compile_error"
           /\ Reported("Can't read local variable in its own initializer.")

(* the number of `{` less the number of `}` before the token at k *)
RECURSIVE BraceDepth(_)
BraceDepth(k) ==
    IF k <= 1 THEN 0
    ELSE BraceDepth(k - 1) + (CASE Tokens[k - 1].kind = "LeftBrace" -> 1
                                [] Tokens[k - 1].kind = "RightBrace" -> -1
                                [] OTHER -> 0)

(* the token at j is a reference to a variable: an identifier that no var declares *)
IsReference(j) == Tokens[j].kind = "Identifier" /\ (j > 1 => Tokens[j - 1].kind # "Var")

(* the `var x` at i is a declaration of the name at j that is in scope     *)
(* there: it comes before, in the same block or in an enclosing one.  The  *)
(* variable a for clause declares counts as in scope up to the end of the  *)
(* block the loop stands in.                                               *)
DeclaredBy(i, j) ==
    /\ Tokens[i].kind = "Var"
    /\ i + 1 < j
    /\ Tokens[i + 1].lexeme = Tokens[j].lexeme
    /\ \A k \in i .. j : BraceDepth(k) >= BraceDepth(i)

Undeclared(j) == IsReference(j) /\ ~\E i \in 1 .. j : DeclaredBy(i, j)

(* the GetLocal and SetLocal instructions emitted so far *)
LocalAccesses ==
    {offset \in InstructionStarts(parser.chunk.code, 0) :
        parser.chunk.code[offset + 1] \in {OP_GET_LOCAL, OP_SET_LOCAL}}

DeclaredTwice(i, j) ==
    /\ i < j
    /\ Tokens[i].kind = "Var" /\ Tokens[j].kind = "Var"
    /\ Tokens[i + 1].kind = "Identifier"
    /\ Tokens[i + 1].lexeme = Tokens[j + 1].lexeme
    /\ \A k \in i .. j : BraceDepth(k) >= BraceDepth(i)
    /\ BraceDepth(j) = BraceDepth(i)
    /\ \A k \in {i, j} : k > 1 => Tokens[k - 1].kind # "LeftParen"

HasDuplicate == \E i, j \in 1 .. Len(Tokens) - 1 : DeclaredTwice(i, j)

(* C16: a source that declares a name twice in one scope does not compile, *)
(* and "Already a variable with this name in this scope." is reported for  *)
(* no other source: a name declared again in a nested block or in a        *)
(* sibling block is accepted.                                              *)
C16_RedeclarationOnlyInSameScope ==
    Returned =>
        /\ HasDuplicate => status = "compile_error"
        /\ Reported("Already a variable with this name in this scope.") => HasDuplicate

(* the tokens scan_token has returned so far *)
TokensScanned ==
    {Tokens[k] : k \in 1 .. (IF parser.scanner.calls < Len(Tokens)
                              THEN parser.scanner.calls ELSE Len(Tokens))}

(* C17: had_error, once set, stays set; it is set whenever an error has    *)
(* been reported, whenever the parser is in panic mode and whenever the    *)
(* scanner has returned an Error token; and compile returns nothing        *)
(* exactly when it is set.                                                 *)
C17_CompileFailsIffErrorRecorded ==
    [][/\ parser.had_error => parser'.had_error
       /\ (parser'.errors # <<>> \/ parser'.panic_mode) => parser'.had_error
       /\ (\E t \in TokensScanned' : t.kind = "Error") => parser'.had_error
       /\ Returned' => (status' = "compile_error" <=> parser'.had_error)]_vars

(* compile has returned nothing for a source with two errors, the second   *)
(* reported after synchronize had cleared the panic of the first           *)
C17_Witness ==
    /\ Returned
    /\ status = "compile_error"
    /\ parser.had_error
    /\ ~parser.panic_mode
    /\ Len(parser.errors) = 2
    /\ parser.errors[2].msg = "Expect expression."

SynchronisationPoint(P) ==
    \/ P.previous.kind = "Semicolon"
    \/ P.current.kind \in {"Class", "Fun", "Var", "For", "If", "While", "Print", "Return"}
    \/ P.current.kind = "Eof"

(* C18: where a declaration starts, let an error be reported: the parser   *)
(* is in panic mode and a further error reports nothing; the synchronize   *)
(* that follows returns out of panic mode, at a synchronisation point.     *)
(* And when the declaration has been compiled, with the synchronize it     *)
(* calls after an error, the parser is out of panic mode.                  *)
C18_PanicUntilSynchronised ==
    [][status = "compiling"
          => LET failed == error_at_current(parser, "Expect expression.")
                 synchronized == synchronize(failed)
             IN /\ failed.panic_mode
                /\ error_at_current(failed, "Expect expression.").errors = failed.errors
                /\ ~synchronized.panicked
                      => (~synchronized.panic_mode /\ SynchronisationPoint(synchronized))
                /\ status' = "compiling" => ~parser'.panic_mode]_vars

TokenType ==
    {"LeftParen", "RightParen", "LeftBrace", "RightBrace", "Comma", "Dot", "Minus", "Plus",
     "Semicolon", "Slash", "Star", "Bang", "BangEqual", "Equal", "EqualEqual", "Greater",
     "GreaterEqual", "Less", "LessEqual", "Identifier", "String", "Number", "And", "Class",
     "Else", "False", "For", "Fun", "If", "Nil", "Or", "Print", "Return", "Super", "This",
     "True", "Var", "While", "Error", "Eof"}

(* C19: every call of scan_token returns a token, whatever the source and  *)
(* wherever the cursor stands: the scanner never aborts on a read past the *)
(* end of the source.                                                      *)
C19_ScanTokenNeverFails ==
    /\ \A t \in TokensScanned : t.kind \in TokenType
    /\ ~parser.panicked

(* the source has a `"` that no second `"` closes *)
Unterminated(source) ==
    Cardinality({i \in 1 .. Len(source) : source[i] = "\""}) % 2 = 1

(* C20: once the tokens of a source with an unterminated string literal    *)
(* have been scanned, an Error token "Unterminated string." is among them, *)
(* on the line that the newlines of the source lead to.                    *)
C20_UnterminatedStringIsErrorToken ==
    (status \notin {"start", "compiling"} /\ Unterminated(parser.scanner.source))
        => \E t \in TokensScanned :
              /\ t.kind = "Error"
              /\ t.lexeme = <<"Unterminated string.">>
              /\ t.line = 1 + Cardinality({i \in 1 .. Len(parser.scanner.source) :
                                              parser.scanner.source[i] = "\n"})

(* main, lines 298-310, and run_file, lines 312-329: run_file returns ()   *)
(* whatever compile() and vm.run() have returned, and main returns after   *)
(* it, so the process exits with 0; a panic of the Rust runtime exits with *)
(* 101.  There is no call of process::exit but the one for the usage.      *)
exit_code == IF status = "panic" THEN 101 ELSE 0

(* C21: a run ends with the exit code of its outcome: 65 after a           *)
(* compilation error, and then no bytecode has been executed; 70 after a   *)
(* runtime error; 0 after a successful run.                                *)
C21_ExitCodeOfOutcome ==
    /\ status = "compile_error" => (exit_code = 65 /\ frames = <<>> /\ output = <<>>)
    /\ status = "runtime_error" => exit_code = 70
    /\ status = "ok" => exit_code = 0

(* C22: the chunk under compilation has one line entry per code byte, and  *)
(* so has the chunk that runs; the frame of a reported runtime error has   *)
(* its ip - 1 inside lines.                                                *)
C22_OneLinePerCodeByte ==
    /\ Len(parser.chunk.code) = Len(parser.chunk.lines)
    /\ status \in {"running", "ok", "runtime_error"} =>
           /\ Len(program.code) = Len(program.lines)
           /\ \A i \in 1 .. Len(frames) :
                  frames[i].ip - 1 < Len(FunctionAt(frames[i].closure.fn).lines)
    /\ status = "runtime_error" => TraceOk(frames)

(* a runtime error in a chunk with a patched jump and a u32 operand *)
C22_Witness ==
    /\ status = "runtime_error"
    /\ \E i \in InstructionStarts(program.code, 0) :
           program.code[i + 1] = OP_JUMP_IF_FALSE
    /\ \E i \in InstructionStarts(program.code, 0) :
           program.code[i + 1] = OP_CONSTANT
    /\ Len(errlog) = 2 /\ errlog[2].line = program.lines[frames[1].ip] /\ errlog[2].line = 2

(* C23: in a program that compiled without error, the GetLocal or SetLocal *)
(* about to be executed has an index below stack.len() - frame.offset.     *)
C23_LocalSlotIsOnTheStack ==
    (Compiled /\ (Fetches(OP_GET_LOCAL) \/ Fetches(OP_SET_LOCAL)) /\ CanReadU32(frame.ip + 1))
        => read_u32(frame.ip + 1) < Len(stack) - frame.offset

(* the names of the locals, in the order of their slots *)
LocalNames(P) == [i \in 1 .. Len(P.compiler.locals) |-> P.compiler.locals[i].token.lexeme]

(* the declaration compiled by this step is a block statement *)
CompilesBlock ==
    /\ status = "compiling" /\ status' = "compiling"
    /\ parser.current.kind = "LeftBrace"
    /\ parser'.scanner.calls > parser.scanner.calls

(* C24: end_scope takes scope_depth back by one, removes the locals whose  *)
(* depth exceeds the new depth and no other, with one Pop for each: when   *)
(* a block has been compiled, the locals of the enclosing scope are the    *)
(* ones before the block, in the same slots, and none of the block is left.*)
C24_EndScopeKeepsEnclosingLocals ==
    [][CompilesBlock =>
          /\ parser'.compiler.scope_depth = parser.compiler.scope_depth
          /\ LocalNames(parser') = LocalNames(parser)
          /\ \A i \in 1 .. Len(parser'.compiler.locals) :
                 LocalStays(parser'.compiler, parser'.compiler.locals[i])]_vars

(* the run of the compiled program has ended *)
Ended == status \in {"ok", "runtime_error", "panic", "compile_error"}

(* C25: an expression of literals and binary operators is evaluated with   *)
(* the operator of higher precedence first and operators of the same       *)
(* precedence from left to right: print of it prints the value of that     *)
(* grouping.                                                               *)
C25_PrecedenceAndLeftAssociativity ==
    \A c \in PrecedenceCases :
        (parser.scanner.source = Text(<<w_print>> \o c[1] \o <<w_semi>>) /\ Ended)
            => (~parser.had_error /\ ~parser.panicked /\ output = <<c[2]>>)

(* print 2 - 1 - 1; or print 2 - 1 * 2; has printed 0 *)
C25_Witness ==
    /\ parser.scanner.source \in {Text(<<w_print, w_2, w_minus, w_1, w_minus, w_1, w_semi>>),
                                  Text(<<w_print, w_2, w_minus, w_1, <<"*">>, w_2, w_semi>>)}
    /\ Ended
    /\ output = <<from_number(0)>>

(* the script has built two closure objects with its first two             *)
(* instructions, one Closure each, and they are the operands of the Equal  *)
(* that comes third                                                        *)
TwoClosureObjects ==
    /\ Len(frames) = 1 /\ frame.ip = 10 /\ Len(stack) = 2
    /\ Code[1] = OP_CLOSURE /\ Code[6] = OP_CLOSURE
    /\ is_closure(peek(1)) /\ is_closure(peek(0))

(* C26: Equal pops b, then a, and pushes Bool(a == b): Nil equals Nil,     *)
(* numbers and booleans are compared by value, strings by content, and     *)
(* two distinct closure objects are unequal, also when they are closures   *)
(* of one function.                                                        *)
C26_EqualByValueClosuresByIdentity ==
    [][(Executes(OP_EQUAL) /\ CanPeek(1))
          => LET a == peek(1)
                 b == peek(0)
                 r == stack'[Len(stack')]
             IN /\ Len(stack') = Len(stack) - 1
                /\ is_bool(r)
                /\ (a.tag = "nil" /\ b.tag = "nil") => r.b
                /\ (a.tag = "bool" /\ b.tag = "bool") => (r.b <=> a.b = b.b)
                /\ (a.tag = "num" /\ b.tag = "num") => (r.b <=> NumEq(a, b))
                /\ (a.tag = "str" /\ b.tag = "str") => (r.b <=> a.s = b.s)
                /\ TwoClosureObjects => ~r.b]_vars

(* C27: a and b is a when a is falsy, else b; a or b is a when a is        *)
(* truthy, else b; the operand that is not the result is skipped or        *)
(* popped, so print finds the one value and leaves the stack empty.        *)
C27_AndOrShortCircuit ==
    \A c \in ShortCircuitCases :
        (parser.scanner.source = Text(<<w_print>> \o c[1] \o <<w_semi>>) /\ Ended)
            => (~parser.had_error /\ output = <<c[2]>> /\ stack = <<>> /\ errlog = <<>>)

(* the script is about to execute the Return that ends its chunk *)
AtFinalReturn == Compiled /\ Running /\ Len(frames) = 1 /\ frame.ip = Len(Code) - 1

(* C28: statements other than variable declarations leave the stack as     *)
(* high as they found it, so when the statements of a program have run     *)
(* the stack holds the declared variables and nothing else, each at its    *)
(* compile-time index; and a read of a variable yields the value last      *)
(* assigned to it.                                                         *)
C28_StatementsAreStackNeutral ==
    /\ AtFinalReturn => Len(stack) = Len(parser.compiler.locals)
    /\ \A c \in ReadCases :
           (parser.scanner.source = Text(c[1]) /\ Ended) => output = c[2]

(* the tokens consumed so far; the Eof at the end is never passed *)
Position(P) ==
    IF P.scanner.calls < Len(P.scanner.stream) THEN P.scanner.calls ELSE Len(P.scanner.stream)

(* the function that goes on at the next step of the parser *)
Top(P) == Head(P.todo)

(* how far a declaration is from the advance of its first token:           *)
(* declaration, statement, expression_statement, parse_precedence          *)
StepsToAdvance(f) ==
    CASE f.at = "declaration" /\ f.pc = 0 -> 3
      [] f.at = "statement" -> 2
      [] f.at = "expression_statement" /\ f.pc = 0 -> 1
      [] f.at = "parse_precedence" /\ f.pc = 0 -> 0
      [] OTHER -> 4

(* a step of the parser that is no panic *)
ParserSteps ==
    /\ status = "compiling" /\ status' = "compiling"
    /\ parser.todo # <<>>

(* declaration is not called at Eof; a declaration that has begun comes    *)
(* closer to the advance of its first token with every step, and consumes  *)
(* it; a turn of the loop of parse_precedence consumes a token             *)
LoopsConsume ==
    /\ (parser'.todo # <<>> /\ Top(parser') = Call("declaration"))
           => parser'.current.kind # "Eof"
    /\ (ParserSteps /\ StepsToAdvance(Top(parser)) < 4 /\ parser.current.kind # "Eof")
           => \/ Position(parser') > Position(parser)
              \/ /\ parser'.todo # <<>>
                 /\ StepsToAdvance(Top(parser')) < StepsToAdvance(Top(parser))
                 /\ Position(parser') = Position(parser)
    /\ (ParserSteps /\ Top(parser).at = "parse_precedence" /\ Top(parser).pc = 1
           /\ Len(parser'.todo) >= Len(parser.todo))
           => Position(parser') > Position(parser)

(* compile has returned, or the process has aborted *)
CompileEnded == status \notin {"start", "compiling"}

(* C29: compile terminates on every source, well-formed or not: every      *)
(* call of declaration and every turn of a loop of the parser consumes a   *)
(* token or stops at Eof, and compile comes to its end.                    *)
C29_CompileTerminates == [][LoopsConsume]_vars /\ <>CompileEnded

(* compile has ended on a block that is never closed, after an error *)
C29_Witness ==
    /\ CompileEnded
    /\ parser.scanner.source = Text(<<w_lb, w_print, w_1, w_semi>>)
    /\ Reported("Expect '}' after block.")

-----------------------------------------------------------------------------
(* interpreter.rs: the tree-walking Interpreter.  A statement or an         *)
(* expression is a record with its kind and its parts (expr.rs); a token    *)
(* is its lexeme, an operator token its kind.  An Object (token.rs) is a    *)
(* record as a Value is, with the same Nil, Bool, Number and String, or a   *)
(* Callable.  An Environment is the index of its two maps in envs: its      *)
(* clone() shares the Rc of enclosing and the Rc of values, so a clone is   *)
(* the same index.  Equality of Callables is not followed.                  *)

(* None of an Option<Expr> or Option<Box<Stmt>> *)
Absent == [kind |-> "None"]

Stmt_Block(decls) == [kind |-> "Block", decls |-> decls]

Stmt_Expr(expr) == [kind |-> "Expr", expr |-> expr]

Stmt_If(expr, then_branch, else_branch) ==
    [kind |-> "If", expr |-> expr, then_branch |-> then_branch, else_branch |-> else_branch]

Stmt_While(expr, body) == [kind |-> "While", expr |-> expr, body |-> body]

Stmt_Print(expr) == [kind |-> "Print", expr |-> expr]

Stmt_Return(expr) == [kind |-> "Return", expr |-> expr]

Stmt_Var(token, expr) == [kind |-> "Var", token |-> token, expr |-> expr]

Stmt_Fn(name, args, body) == [kind |-> "Fn", name |-> name, args |-> args, body |-> body]

Expr_Assign(name, right) == [kind |-> "Assign", name |-> name, right |-> right]

Expr_Binary(left, op, right) == [kind |-> "Binary", left |-> left, op |-> op, right |-> right]

Expr_Call(callee, args) == [kind |-> "Call", callee |-> callee, args |-> args]

Expr_Grouping(expr) == [kind |-> "Grouping", expr |-> expr]

Expr_Logical(left, op, right) == [kind |-> "Logical", left |-> left, op |-> op, right |-> right]

Expr_Unary(op, right) == [kind |-> "Unary", op |-> op, right |-> right]

Expr_Literal(obj) == [kind |-> "Literal", obj |-> obj]

Expr_Variable(name) == [kind |-> "Variable", name |-> name]

LoxFn_Clock == [kind |-> "Clock"]

LoxFn_UserDef(name, args, body, closure) ==
    [kind |-> "UserDef", name |-> name, args |-> args, body |-> body, closure |-> closure]

Object_Callable(arity, f) == [tag |-> "callable", arity |-> arity, f |-> f]

(* Environment::new: a new pair of maps, with the given one enclosing *)
Environment_new(I, enclosing) ==
    [I EXCEPT !.envs = Append(@, [enclosing |-> enclosing, values |-> <<>>])]

(* Environment::define *)
Environment_define(I, env, name, value) ==
    [I EXCEPT !.envs[env].values = (name :> value) @@ @]

(* Environment::assign and Environment::get: the environment of the chain  *)
(* from env whose values hold the name; 0 when none does, and both panic   *)
RECURSIVE Holder(_, _, _)
Holder(I, env, name) ==
    IF name \in DOMAIN I.envs[env].values THEN env
    ELSE IF I.envs[env].enclosing # 0 THEN Holder(I, I.envs[env].enclosing, name)
    ELSE 0

Environment_assign(I, env, name, value) ==
    IF Holder(I, env, name) = 0 THEN [I EXCEPT !.panicked = TRUE]
    ELSE Environment_define(I, Holder(I, env, name), name, value)

Environment_get(I, env, name) == I.envs[Holder(I, env, name)].values[name]

(* Interpreter::new, about to interpret the statement *)
Interpreter_new(stmt) ==
    [phase |-> "start",
     statement |-> stmt,
     env |-> 1,
     envs |-> <<[enclosing |-> 0,
                 values |-> ("clock" :> Object_Callable(0, LoxFn_Clock))]>>,
     todo |-> <<>>,
     vals |-> <<>>,
     err |-> "none",
     msg |-> "",
     ret |-> Value_nil,
     printed |-> <<>>,
     panicked |-> FALSE]

is_thruthy(o) == IF o.tag = "nil" THEN FALSE ELSE IF o.tag = "bool" THEN o.b ELSE TRUE

(* left == right of the derived PartialEq *)
ObjectEq(left, right) ==
    /\ left.tag = right.tag
    /\ IF left.tag = "num" THEN NumEq(left, right) ELSE left = right

is_equal(left, right) ==
    IF left.tag = "nil" /\ right.tag = "nil" THEN TRUE
    ELSE IF left.tag = "nil" THEN FALSE
    ELSE ObjectEq(left, right)

(* The calls of the interpreter's functions, as those of the parser: todo  *)
(* is its call stack, vals the values the calls made so far have returned. *)
Todo(I, calls) == [I EXCEPT !.todo = calls \o @]

Call_interpret_statement(s) == [at |-> "interpret_statement", pc |-> 0, s |-> s]

Call_interpret(e) == [at |-> "interpret", pc |-> 0, e |-> e]

Call_execute_block(decls, env) == [at |-> "execute_block", pc |-> 0, decls |-> decls, env |-> env]

Returns(I, value) == [I EXCEPT !.vals = Append(@, value)]

Returned_value(I) == I.vals[Len(I.vals)]

(* the last n values are taken *)
Taken(I, n) == [I EXCEPT !.vals = SubSeq(@, 1, Len(@) - n)]

(* Err(LoxError::error_tok(..)) *)
LoxError(I, msg) == [I EXCEPT !.err = "Lox", !.msg = msg]

(* Interpreter::interpret_statement.  pc 1: after interpret(expr) *)
interpret_statement(I, f) ==
    IF f.pc = 0
    THEN CASE f.s.kind = "Block" ->
                 Todo(Environment_new(I, I.env),
                      <<Call_execute_block(f.s.decls, Len(I.envs) + 1)>>)
           [] f.s.kind = "Fn" ->
                 Environment_define(I, I.env, f.s.name,
                     Object_Callable(Len(f.s.args),
                                     LoxFn_UserDef(f.s.name, f.s.args, f.s.body, I.env)))
           [] f.s.kind = "Var" /\ f.s.expr.kind = "None" ->
                 Environment_define(I, I.env, f.s.token, Value_nil)
           [] OTHER -> Todo(I, <<Call_interpret(f.s.expr), [f EXCEPT !.pc = 1]>>)
    ELSE CASE f.s.kind = "Return" ->
                 [Taken(I, 1) EXCEPT !.err = "Return", !.ret = Returned_value(I)]
           [] f.s.kind = "If" ->
                 IF is_thruthy(Returned_value(I))
                 THEN Todo(Taken(I, 1), <<Call_interpret_statement(f.s.then_branch)>>)
                 ELSE IF f.s.else_branch.kind # "None"
                      THEN Todo(Taken(I, 1), <<Call_interpret_statement(f.s.else_branch)>>)
                      ELSE Taken(I, 1)
           [] f.s.kind = "While" ->
                 IF is_thruthy(Returned_value(I))
                 THEN Todo(Taken(I, 1),
                           <<Call_interpret_statement(f.s.body), Call_interpret(f.s.expr), f>>)
                 ELSE Taken(I, 1)
           [] f.s.kind = "Expr" -> Taken(I, 1)
           [] f.s.kind = "Print" ->
                 [Taken(I, 1) EXCEPT !.printed = Append(@, Returned_value(I))]
           [] f.s.kind = "Var" ->
                 Environment_define(Taken(I, 1), I.env, f.s.token, Returned_value(I))

(* Interpreter::execute_block.  pc 0: lines 168-170; pc 1: lines 172-184,  *)
(* one turn of the loop that no error ends, or the end                     *)
execute_block(I, f) ==
    IF f.pc = 0
    THEN Todo([I EXCEPT !.env = f.env],
              <<[at |-> "execute_block", pc |-> 1, decls |-> f.decls, i |-> 1,
                 previous |-> I.env]>>)
    ELSE IF f.i <= Len(f.decls)
         THEN Todo(I, <<Call_interpret_statement(f.decls[f.i]), [f EXCEPT !.i = f.i + 1]>>)
         ELSE [I EXCEPT !.env = f.previous]

(* Interpreter::interpret, Expr::Binary: lines 256-352 *)
BothNumbers(left, right) == is_number(left) /\ is_number(right)

Binary(I, op, left, right) ==
    CASE op \in {"Minus", "Slash", "Star", "Greater", "GreaterEqual", "Less", "LessEqual"}
             /\ ~BothNumbers(left, right) ->
                LoxError(I, "Operands must be numbers.")
      [] op = "Minus" /\ BothNumbers(left, right) -> Returns(I, NumSub(left, right))
      [] op = "Slash" /\ BothNumbers(left, right) -> Returns(I, NumDiv(left, right))
      [] op = "Star" /\ BothNumbers(left, right) -> Returns(I, NumMul(left, right))
      [] op = "Greater" /\ BothNumbers(left, right) ->
                Returns(I, from_bool(NumLess(right, left)))
      [] op = "GreaterEqual" /\ BothNumbers(left, right) ->
                Returns(I, from_bool(NumLess(right, left) \/ NumEq(left, right)))
      [] op = "Less" /\ BothNumbers(left, right) ->
                Returns(I, from_bool(NumLess(left, right)))
      [] op = "LessEqual" /\ BothNumbers(left, right) ->
                Returns(I, from_bool(NumLess(left, right) \/ NumEq(left, right)))
      [] op = "Plus" ->
                IF BothNumbers(left, right) THEN Returns(I, NumAdd(left, right))
                ELSE IF is_string(left) /\ is_string(right)
                     THEN Returns(I, Value_string(left.s \o right.s))
                     ELSE LoxError(I, "Operands must two numbers or two strings.")
      [] op = "BangEqual" -> Returns(I, from_bool(~is_equal(left, right)))
      [] op = "EqualEqual" -> Returns(I, from_bool(is_equal(left, right)))
      [] OTHER -> Returns(I, Value_nil)

(* Interpreter::interpret, Expr::Call: lines 204-218, on the callee and    *)
(* the n arguments that have been evaluated                                *)
CallValue(I, n) ==
    LET callee == I.vals[Len(I.vals) - n]
        arguments == SubSeq(I.vals, Len(I.vals) - n + 1, Len(I.vals))
    IN IF callee.tag = "callable"
       THEN IF callee.arity # n
            THEN LoxError(Taken(I, n + 1), "Expected {} arguments but got {}.")
            ELSE Todo(Taken(I, n + 1),
                      <<[at |-> "call", pc |-> 0, callee |-> callee.f, arguments |-> arguments]>>)
       ELSE LoxError(Taken(I, n + 1), "Can only call functions and classes.")

(* Interpreter::interpret.  pc 1: after the operands; for a Call, one turn *)
(* of the loop over the arguments or the call                              *)
interpret(I, f) ==
    IF f.pc = 0
    THEN CASE f.e.kind = "Assign" -> Todo(I, <<Call_interpret(f.e.right), [f EXCEPT !.pc = 1]>>)
           [] f.e.kind = "Variable" ->
                 IF Holder(I, I.env, f.e.name) = 0 THEN [I EXCEPT !.panicked = TRUE]
                 ELSE Returns(I, Environment_get(I, I.env, f.e.name))
           [] f.e.kind = "Literal" -> Returns(I, f.e.obj)
           [] f.e.kind = "Grouping" -> Todo(I, <<Call_interpret(f.e.expr)>>)
           [] f.e.kind = "Call" ->
                 Todo(I, <<Call_interpret(f.e.callee),
                           [at |-> "interpret", pc |-> 1, e |-> f.e, i |-> 1]>>)
           [] f.e.kind = "Unary" -> Todo(I, <<Call_interpret(f.e.right), [f EXCEPT !.pc = 1]>>)
           [] f.e.kind = "Logical" -> Todo(I, <<Call_interpret(f.e.left), [f EXCEPT !.pc = 1]>>)
           [] f.e.kind = "Binary" ->
                 Todo(I, <<Call_interpret(f.e.left), Call_interpret(f.e.right),
                           [f EXCEPT !.pc = 1]>>)
    ELSE CASE f.e.kind = "Assign" -> Environment_assign(I, I.env, f.e.name, Returned_value(I))
           [] f.e.kind = "Call" ->
                 IF f.i <= Len(f.e.args)
                 THEN Todo(I, <<Call_interpret(f.e.args[f.i]), [f EXCEPT !.i = f.i + 1]>>)
                 ELSE CallValue(I, Len(f.e.args))
           [] f.e.kind = "Unary" ->
                 IF f.e.op = "Bang"
                 THEN Returns(Taken(I, 1), from_bool(~is_thruthy(Returned_value(I))))
                 ELSE IF f.e.op = "Minus"
                      THEN IF is_number(Returned_value(I))
                           THEN Returns(Taken(I, 1), NumNeg(Returned_value(I)))
                           ELSE LoxError(Taken(I, 1), "Operand must be a number.")
                      ELSE LoxError(Taken(I, 1), "Unknown unary operator.")
           [] f.e.kind = "Logical" ->
                 IF (f.e.op = "Or") = is_thruthy(Returned_value(I)) THEN I
                 ELSE Todo(Taken(I, 1), <<Call_interpret(f.e.right)>>)
           [] f.e.kind = "Binary" ->
                 Binary(Taken(I, 2), f.e.op, I.vals[Len(I.vals) - 1], Returned_value(I))

(* Interpreter::call, lines 366-368: the arguments are defined in env *)
RECURSIVE DefineArguments(_, _, _, _, _)
DefineArguments(I, env, args, arguments, i) ==
    IF i > Len(args) THEN I
    ELSE DefineArguments(Environment_define(I, env, args[i], arguments[i]),
                         env, args, arguments, i + 1)

(* Interpreter::call.  pc 1: execute_block has returned Ok(()), line 373;  *)
(* the seconds of the clock are taken as 0                                 *)
call(I, f) ==
    IF f.pc = 0
    THEN IF f.callee.kind = "Clock" THEN Returns(I, from_number(0))
         ELSE Todo(DefineArguments(Environment_new(I, f.callee.closure), Len(I.envs) + 1,
                                   f.callee.args, f.arguments, 1),
                   <<Call_execute_block(f.callee.body, Len(I.envs) + 1),
                     [at |-> "call", pc |-> 1, base |-> Len(I.vals)]>>)
    ELSE Returns(I, Value_nil)

(* the function f, taken from todo, goes on to its next call or to its return *)
Interpreter_step(I, f) ==
    CASE f.at = "interpret_statement" -> interpret_statement(I, f)
      [] f.at = "execute_block" -> execute_block(I, f)
      [] f.at = "interpret" -> interpret(I, f)
      [] f.at = "call" -> call(I, f)

(* an Err comes back to the function f, taken from todo: execute_block     *)
(* sets env back for a Return and hands it on (lines 174-177), call turns  *)
(* a Return into its value (line 371), and every other Err is handed on    *)
(* by `?` (line 179) or as it is (line 372)                                *)
Interpreter_err(I, f) ==
    IF I.err = "Return" /\ f.at = "execute_block" /\ f.pc = 1
    THEN [I EXCEPT !.env = f.previous]
    ELSE IF I.err = "Return" /\ f.at = "call" /\ f.pc = 1
         THEN [I EXCEPT !.err = "none", !.vals = Append(SubSeq(@, 1, f.base), I.ret)]
         ELSE I

(* Statements the Interpreter is given, one after the other *)
Lit(n) == Expr_Literal(from_number(n))

Str(s) == Expr_Literal(Value_string(<<s>>))

Var(name) == Expr_Variable(name)

CallOf(name, args) == Expr_Call(Var(name), args)

NestedBlocks ==
    <<Stmt_Block(<<Stmt_Var("a", Lit(1)),
                   Stmt_Block(<<Stmt_Var("a", Lit(2)), Stmt_Print(Var("a"))>>),
                   Stmt_Print(Var("a"))>>),
      Stmt_Var("b", Absent),
      Stmt_Print(Var("b"))>>

ReturnThroughBlocks ==
    <<Stmt_Fn("f", <<"x">>,
              <<Stmt_Block(<<Stmt_Block(<<Stmt_Return(Var("x"))>>)>>), Stmt_Print(Str("s"))>>),
      Stmt_Block(<<Stmt_Var("x", Lit(1)),
                   Stmt_Print(Expr_Binary(CallOf("f", <<Lit(2)>>), "Plus", Var("x")))>>),
      Stmt_Print(CallOf("f", <<Lit(3)>>))>>

ErrorInBlock ==
    <<Stmt_Block(<<Stmt_Var("a", Lit(1)),
                   Stmt_Block(<<Stmt_Expr(Expr_Unary("Minus", Str("s")))>>),
                   Stmt_Print(Var("a"))>>),
      Stmt_Print(Var("a"))>>

ErrorInCall ==
    <<Stmt_Fn("f", <<"x">>, <<Stmt_Expr(Expr_Binary(Var("x"), "Minus", Lit(1)))>>),
      Stmt_Print(CallOf("f", <<Lit(1)>>)),
      Stmt_Expr(CallOf("f", <<Str("s")>>)),
      Stmt_Print(Var("x"))>>

Loop ==
    <<Stmt_Var("i", Lit(0)),
      Stmt_While(Expr_Binary(Var("i"), "Less", Lit(2)),
                 Stmt_Block(<<Stmt_Expr(Expr_Assign("i", Expr_Binary(Var("i"), "Plus", Lit(1))))>>)),
      Stmt_If(Expr_Binary(Var("i"), "EqualEqual", Lit(2)),
              Stmt_Print(Expr_Binary(Str("s"), "Plus", Str("t"))),
              Stmt_Print(Var("i"))),
      Stmt_If(Expr_Binary(Var("i"), "BangEqual", Lit(2)), Stmt_Print(Var("i")), Absent),
      Stmt_If(Expr_Unary("Bang", Expr_Grouping(Var("i"))),
              Stmt_Print(Lit(0)),
              Stmt_Block(<<Stmt_Print(Expr_Binary(Var("i"), "Star", Var("i")))>>))>>

Recursion ==
    <<Stmt_Fn("f", <<"n">>,
              <<Stmt_If(Expr_Binary(Var("n"), "LessEqual", Lit(0)), Stmt_Return(Lit(0)), Absent),
                Stmt_Return(Expr_Binary(Var("n"), "Plus",
                                        CallOf("f", <<Expr_Binary(Var("n"), "Minus", Lit(1))>>)))>>),
      Stmt_Print(CallOf("f", <<Lit(2)>>))>>

Closure ==
    <<Stmt_Fn("make", <<>>,
              <<Stmt_Var("c", Lit(0)),
                Stmt_Fn("inc", <<>>,
                        <<Stmt_Expr(Expr_Assign("c", Expr_Binary(Var("c"), "Plus", Lit(1)))),
                          Stmt_Return(Var("c"))>>),
                Stmt_Return(Var("inc"))>>),
      Stmt_Var("g", CallOf("make", <<>>)),
      Stmt_Print(CallOf("g", <<>>)),
      Stmt_Print(CallOf("g", <<>>))>>

BadCalls ==
    <<Stmt_Expr(Expr_Call(Str("s"), <<>>)),
      Stmt_Expr(CallOf("clock", <<Lit(1)>>)),
      Stmt_Print(Expr_Binary(CallOf("clock", <<>>), "GreaterEqual", Lit(0))),
      Stmt_Return(Lit(1)),
      Stmt_Print(Expr_Binary(Lit(1), "Plus", Str("s"))),
      Stmt_Print(Expr_Binary(Lit(1), "Greater", Str("s"))),
      Stmt_Print(Expr_Binary(Lit(1), "Slash", Lit(2))),
      Stmt_Print(Expr_Binary(Lit(1), "Comma", Lit(2))),
      Stmt_Print(Expr_Unary("Plus", Lit(1)))>>

Logicals ==
    <<Stmt_Print(Expr_Logical(Expr_Literal(Value_nil), "Or", Lit(1))),
      Stmt_Print(Expr_Logical(Lit(1), "Or", Expr_Unary("Minus", Str("s")))),
      Stmt_Print(Expr_Logical(Expr_Literal(from_bool(FALSE)), "And", Expr_Unary("Minus", Str("s")))),
      Stmt_Print(Expr_Logical(Lit(1), "And", Lit(2)))>>

Undefined ==
    <<Stmt_Block(<<Stmt_Expr(Expr_Assign("u", Lit(1)))>>), Stmt_Print(Lit(1))>>

UndefinedRead ==
    <<Stmt_Block(<<Stmt_Var("a", Lit(1))>>), Stmt_Print(Var("a")), Stmt_Print(Lit(1))>>

Statements ==
    {NestedBlocks, ReturnThroughBlocks, ErrorInBlock, ErrorInCall, Loop, Recursion, Closure,
     BadCalls, Logicals, Undefined, UndefinedRead}

InitInterp ==
    /\ program = Function(0, 0, "<script>", <<>>, <<>>)
    /\ frames = <<>>
    /\ stack = <<>>
    /\ cells = <<>>
    /\ status = "start"
    /\ output = <<>>
    /\ errlog = <<>>
    /\ captured = <<>>
    /\ callerLen = <<>>
    /\ parser = [phase |-> "none"]
    /\ interp \in {Interpreter_new(s) : s \in Statements}

(* interpret_statement is called with the next statement, whatever the one *)
(* before has returned                                                     *)
Interp_statement ==
    /\ interp.phase = "start"
    /\ interp.todo = <<>>
    /\ ~interp.panicked
    /\ interp.statement # <<>>
    /\ interp' = [interp EXCEPT !.todo = <<Call_interpret_statement(Head(interp.statement))>>,
                                !.statement = Tail(@),
                                !.vals = <<>>,
                                !.err = "none"]
    /\ UNCHANGED <<vmvars, parser>>

Interp_step ==
    /\ interp.todo # <<>>
    /\ ~interp.panicked
    /\ interp.err = "none"
    /\ interp' = Interpreter_step([interp EXCEPT !.todo = Tail(@)], Head(interp.todo))
    /\ UNCHANGED <<vmvars, parser>>

Interp_err ==
    /\ interp.todo # <<>>
    /\ ~interp.panicked
    /\ interp.err # "none"
    /\ interp' = Interpreter_err([interp EXCEPT !.todo = Tail(@)], Head(interp.todo))
    /\ UNCHANGED <<vmvars, parser>>

Interp_end ==
    /\ interp.phase = "start"
    /\ interp.panicked \/ (interp.todo = <<>> /\ interp.statement = <<>>)
    /\ interp' = [interp EXCEPT !.phase = "done"]
    /\ UNCHANGED <<vmvars, parser>>

NextInterp == Interp_statement \/ Interp_step \/ Interp_err \/ Interp_end

SpecInterp == InitInterp /\ [][NextInterp]_vars

(* execute_block is about to return: its loop is over, or a statement of   *)
(* the block has returned an Err                                           *)
ExecuteBlockReturns ==
    /\ interp.phase = "start"
    /\ ~interp.panicked
    /\ interp.todo # <<>>
    /\ Head(interp.todo).at = "execute_block"
    /\ Head(interp.todo).pc = 1
    /\ interp.err # "none" \/ Head(interp.todo).i > Len(Head(interp.todo).decls)

(* C30: when execute_block returns, by the end of its loop, by a Return or *)
(* by a runtime error of one of its statements, the environment of the     *)
(* interpreter is the one that was current when it was called.             *)
C30_ExecuteBlockRestoresEnv ==
    [][ExecuteBlockReturns => interp'.env = Head(interp.todo).previous]_vars

=============================================================================
